---- MODULE Spec2Model ----
(***************************************************************************)
(* Model of the stream transcoders of qwen-ai-provider-v5.                 *)
(*                                                                         *)
(*   - QwenChatLanguageModel.doStream (src/src/map-qwen-finish-reason.ts,  *)
(*     lines 526-752): the TransformStream whose transform() is called     *)
(*     once per server-sent-event chunk and whose flush() is called when   *)
(*     the input ends.                                                     *)
(*   - QwenCompletionLanguageModel.doStream                                *)
(*     (src/src/qwen-completion-language-model.ts, lines 282-376).         *)
(*                                                                         *)
(* Conventions.  A nullable JavaScript value (null / undefined / absent)   *)
(* is an option: None is <<>>, Some(v) is <<v>>.  Texts whose characters   *)
(* matter (contents, argument fragments) are sequences of one-character    *)
(* strings, so that += is \o and JSON parsability is computed.  Ids and    *)
(* names are atomic strings.  `events` is the log of controller.enqueue    *)
(* calls; `origin` and `input` are history variables recording, for each   *)
(* event, the chunk (0 = flush) and tool-call index it was emitted for,    *)
(* and the chunks handed to transform() so far.                            *)
(***************************************************************************)
EXTENDS Integers, Sequences, FiniteSets, TLC

(***************************************************************************)
(* Bounds of the model.                                                    *)
(***************************************************************************)
MaxChunks == 3

MaxIndex == 1

MaxTurns == 2

(***************************************************************************)
(* Options and small helpers.                                              *)
(***************************************************************************)
None == <<>>

Some(v) == <<v>>

IsNull(o) == o = None

Get(o) == o[1]

OrElse(o, d) == IF IsNull(o) THEN d ELSE Get(o)

Last(s) == s[Len(s)]

RECURSIVE CountType(_, _)
CountType(evs, t) ==
  IF evs = <<>> THEN 0
  ELSE (IF Head(evs).type = t THEN 1 ELSE 0) + CountType(Tail(evs), t)

Positions(evs, t) == {k \in 1..Len(evs) : evs[k].type = t}

(***************************************************************************)
(* isParsableJson (@ai-sdk/provider-utils): JSON.parse succeeds.  Computed *)
(* exactly for texts over the characters [ ] { } , 1 : a value is a number *)
(* (a run of the digit 1), the empty object, or an array of values.        *)
(***************************************************************************)
JsonChars == {"[", "]", "{", "}", ",", "1"}

RECURSIVE SkipDigits(_, _)
SkipDigits(s, i) ==
  IF i <= Len(s) /\ s[i] = "1" THEN SkipDigits(s, i + 1) ELSE i

RECURSIVE ParseValue(_, _)
RECURSIVE ParseElements(_, _)
\* index just after the JSON value that starts at s[i], or 0 when there is none
ParseValue(s, i) ==
  IF i > Len(s) THEN 0
  ELSE IF s[i] = "1" THEN SkipDigits(s, i)
  ELSE IF s[i] = "{" THEN (IF i + 1 <= Len(s) /\ s[i + 1] = "}" THEN i + 2 ELSE 0)
  ELSE IF s[i] = "[" THEN
         (IF i + 1 <= Len(s) /\ s[i + 1] = "]" THEN i + 2 ELSE ParseElements(s, i + 1))
  ELSE 0

\* after "[": value ("," value)* "]"
ParseElements(s, i) ==
  LET j == ParseValue(s, i) IN
    IF j = 0 \/ j > Len(s) THEN 0
    ELSE IF s[j] = "]" THEN j + 1
    ELSE IF s[j] = "," THEN ParseElements(s, j + 1)
    ELSE 0

isParsableJson(s) == ParseValue(s, 1) = Len(s) + 1

(***************************************************************************)
(* Pure helpers of the adapters.                                           *)
(***************************************************************************)
\* variant: the content_filter case is missing
mapQwenFinishReasonNoFilter(fr) ==
  [unified |-> IF fr = Some("stop") THEN "stop"
               ELSE IF fr = Some("length") THEN "length"
               ELSE IF fr = Some("tool_calls") THEN "tool-calls"
               ELSE "other",
   raw |-> fr]

\* mapQwenFinishReason (V3): fr is an option of a vendor string
mapQwenFinishReason(fr) ==
  [unified |-> IF fr = Some("stop") THEN "stop"
               ELSE IF fr = Some("length") THEN "length"
               ELSE IF fr = Some("tool_calls") THEN "tool-calls"
               ELSE IF fr = Some("content_filter") THEN "content-filter"
               ELSE "other",
   raw |-> fr]

\* buildUsage: both arguments are options of token counts
buildUsage(inputTokens, outputTokens) ==
  [inputTokens |-> [total |-> inputTokens, noCache |-> None,
                    cacheRead |-> None, cacheWrite |-> None],
   outputTokens |-> [total |-> outputTokens, text |-> None, reasoning |-> None]]

\* getResponseMetadata: the identifying fields of the chunk, absent ones undefined
getResponseMetadata(value) ==
  [id |-> value.id, modelId |-> value.model, timestamp |-> value.created]

\* generateId (@ai-sdk/provider-utils): a fresh non-empty id on every call
GeneratedIds == <<"gen-1", "gen-2", "gen-3", "gen-4">>

generateId(counter) == GeneratedIds[counter + 1]

(***************************************************************************)
(* Initial values of the per-call locals of doStream.                      *)
(***************************************************************************)
ChatInitialFinishReason == [unified |-> "other", raw |-> None]

CompletionInitialFinishReason == "unknown"

CompletionInitialUsage ==
  [inputTokens |-> None, outputTokens |-> None, totalTokens |-> None]

InitialState(kind) ==
  [pc |-> "streaming",
   failure |-> "",
   n |-> 0,
   events |-> <<>>,
   origin |-> <<>>,
   toolCalls |-> <<>>,
   finishReason |-> IF kind = "chat" THEN ChatInitialFinishReason
                    ELSE CompletionInitialFinishReason,
   usage |-> IF kind = "chat" THEN buildUsage(None, None)
             ELSE CompletionInitialUsage,
   isFirstChunk |-> TRUE,
   hasStreamStarted |-> FALSE,
   textId |-> None,
   reasoningId |-> None,
   idCounter |-> 0]

\* controller.enqueue(ev) while processing chunk st.n, for tool-call index idx (-1: none)
Emit(st, ev, idx) ==
  [st EXCEPT !.events = Append(@, ev),
             !.origin = Append(@, [chunk |-> st.n, index |-> idx])]

\* variant: the malformed delta is skipped instead of raising
ThrowSwallowed(st, message) == st

\* throw new InvalidResponseDataError({ message }): the stream is errored
Throw(st, message) == [st EXCEPT !.pc = "errored", !.failure = message]

(***************************************************************************)
(* Chat transform(), block by block (map-qwen-finish-reason.ts 546-727).   *)
(* st is the record of the per-call locals; the result is the record after *)
(* the block.                                                              *)
(***************************************************************************)
\* variant: a parse failure errors the stream
ParseFailureAborts(st, chunk) ==
  Throw(Emit(st, [type |-> "error", error |-> chunk.error], -1), "parse-failure")

\* 547-550: if (!chunk.success) { enqueue error; return }
ParseFailure(st, chunk) == Emit(st, [type |-> "error", error |-> chunk.error], -1)

\* variant: the error object is tested after the stream-start block
VendorErrorAfterStart(st, value) ==
  LET s1 == IF ~st.hasStreamStarted
              THEN Emit([st EXCEPT !.hasStreamStarted = TRUE], [type |-> "stream-start"], -1)
              ELSE st
  IN  Emit(s1, [type |-> "error", error |-> value.message], -1)

\* 556-559: if (value.object === "error") { enqueue error(message); return }
VendorError(st, value) == Emit(st, [type |-> "error", error |-> value.message], -1)

\* variant: hasStreamStarted is never set
StreamStartBlockRepeated(st) == Emit(st, [type |-> "stream-start"], -1)

\* 561-567
StreamStartBlock(st) ==
  IF ~st.hasStreamStarted
    THEN Emit([st EXCEPT !.hasStreamStarted = TRUE], [type |-> "stream-start"], -1)
    ELSE st

\* variant: the metadata is sent for every chunk that carries an id
FirstChunkBlockOnIdent(st, value) ==
  IF ~IsNull(value.id)
    THEN LET metadata == getResponseMetadata(value) IN
         Emit([st EXCEPT !.isFirstChunk = FALSE],
              [type |-> "response-metadata", id |-> metadata.id,
               timestamp |-> metadata.timestamp, modelId |-> metadata.modelId], -1)
    ELSE st

\* 569-578
FirstChunkBlock(st, value) ==
  IF st.isFirstChunk
    THEN LET metadata == getResponseMetadata(value) IN
         Emit([st EXCEPT !.isFirstChunk = FALSE],
              [type |-> "response-metadata", id |-> metadata.id,
               timestamp |-> metadata.timestamp, modelId |-> metadata.modelId], -1)
    ELSE st

\* 580-585
UsageBlock(st, value) ==
  IF ~IsNull(value.usage)
    THEN [st EXCEPT !.usage = buildUsage(Get(value.usage).prompt_tokens,
                                         Get(value.usage).completion_tokens)]
    ELSE st

\* variant: only the first reported finish reason is kept
FinishReasonBlockFirstWins(st, choice) ==
  IF ~IsNull(choice) /\ ~IsNull(Get(choice).finish_reason) /\ IsNull(st.finishReason.raw)
    THEN [st EXCEPT !.finishReason = mapQwenFinishReason(Get(choice).finish_reason)]
    ELSE st

\* 587-591: choice is an option (choices[0])
FinishReasonBlock(st, choice) ==
  IF ~IsNull(choice) /\ ~IsNull(Get(choice).finish_reason)
    THEN [st EXCEPT !.finishReason = mapQwenFinishReason(Get(choice).finish_reason)]
    ELSE st

\* variant: only the fragment that opens the sub-stream is forwarded
ReasoningBlockOpeningOnly(st, delta) ==
  IF ~IsNull(delta.reasoning_content) /\ IsNull(st.reasoningId)
    THEN LET id == generateId(st.idCounter)
             s1 == Emit([st EXCEPT !.reasoningId = Some(id), !.idCounter = @ + 1],
                        [type |-> "reasoning-start", id |-> id], -1)
         IN  Emit(s1, [type |-> "reasoning-delta", id |-> id,
                       delta |-> Get(delta.reasoning_content)], -1)
    ELSE st

\* 600-613
ReasoningBlock(st, delta) ==
  IF ~IsNull(delta.reasoning_content)
    THEN LET id == generateId(st.idCounter)
             s1 == IF IsNull(st.reasoningId)
                     THEN Emit([st EXCEPT !.reasoningId = Some(id), !.idCounter = @ + 1],
                               [type |-> "reasoning-start", id |-> id], -1)
                     ELSE st
         IN  Emit(s1, [type |-> "reasoning-delta", id |-> Get(s1.reasoningId),
                       delta |-> Get(delta.reasoning_content)], -1)
    ELSE st

\* variant: textId is not remembered, every fragment opens a new sub-stream
TextBlockRestarts(st, delta) ==
  IF ~IsNull(delta.content)
    THEN LET id == generateId(st.idCounter)
             s1 == Emit(st, [type |-> "text-start", id |-> id], -1)
         IN  Emit(s1, [type |-> "text-delta", id |-> id, delta |-> Get(delta.content)], -1)
    ELSE st

\* 616-626
TextBlock(st, delta) ==
  IF ~IsNull(delta.content)
    THEN LET id == generateId(st.idCounter)
             s1 == IF IsNull(st.textId)
                     THEN Emit([st EXCEPT !.textId = Some(id), !.idCounter = @ + 1],
                               [type |-> "text-start", id |-> id], -1)
                     ELSE st
         IN  Emit(s1, [type |-> "text-delta", id |-> Get(s1.textId),
                       delta |-> Get(delta.content)], -1)
    ELSE st

\* variant: tool-call is enqueued before tool-input-end
FinishToolCallSwapped(st, index) ==
  LET toolCall == st.toolCalls[index]
      s1 == Emit(st, [type |-> "tool-call", toolCallId |-> toolCall.id,
                      toolName |-> toolCall.name, input |-> toolCall.arguments], index)
      s2 == Emit(s1, [type |-> "tool-input-end", id |-> toolCall.id], index)
  IN  [s2 EXCEPT !.toolCalls[index].hasFinished = TRUE]

\* 680-690 and 713-723: tool-input-end, tool-call, hasFinished = true
FinishToolCall(st, index) ==
  LET toolCall == st.toolCalls[index]
      s1 == Emit(st, [type |-> "tool-input-end", id |-> toolCall.id], index)
      s2 == Emit(s1, [type |-> "tool-call", toolCallId |-> toolCall.id,
                      toolName |-> toolCall.name, input |-> toolCall.arguments], index)
  IN  [s2 EXCEPT !.toolCalls[index].hasFinished = TRUE]

\* variant: the arguments that arrive with the opening delta are not re-emitted
FirstToolCallDeltaQuiet(st, toolCallDelta) ==
  LET index == toolCallDelta.index IN
  IF toolCallDelta.type # Some("function")
    THEN Throw(st, "Expected 'function' type.")
  ELSE IF IsNull(toolCallDelta.id)
    THEN Throw(st, "Expected 'id' to be a string.")
  ELSE IF IsNull(toolCallDelta.function.name)
    THEN Throw(st, "Expected 'function.name' to be a string.")
  ELSE
    LET toolCall == [id |-> Get(toolCallDelta.id),
                     name |-> Get(toolCallDelta.function.name),
                     arguments |-> OrElse(toolCallDelta.function.arguments, <<>>),
                     hasFinished |-> FALSE]
        s1 == [st EXCEPT !.toolCalls = (index :> toolCall) @@ @]
        s2 == Emit(s1, [type |-> "tool-input-start", id |-> toolCall.id,
                        toolName |-> toolCall.name], index)
    IN  IF isParsableJson(toolCall.arguments) THEN FinishToolCall(s2, index) ELSE s2

\* 633-694: toolCalls[index] == null
FirstToolCallDelta(st, toolCallDelta) ==
  LET index == toolCallDelta.index IN
  IF toolCallDelta.type # Some("function")
    THEN Throw(st, "Expected 'function' type.")
  ELSE IF IsNull(toolCallDelta.id)
    THEN Throw(st, "Expected 'id' to be a string.")
  ELSE IF IsNull(toolCallDelta.function.name)
    THEN Throw(st, "Expected 'function.name' to be a string.")
  ELSE
    LET toolCall == [id |-> Get(toolCallDelta.id),
                     name |-> Get(toolCallDelta.function.name),
                     arguments |-> OrElse(toolCallDelta.function.arguments, <<>>),
                     hasFinished |-> FALSE]
        s1 == [st EXCEPT !.toolCalls = (index :> toolCall) @@ @]
        s2 == Emit(s1, [type |-> "tool-input-start", id |-> toolCall.id,
                        toolName |-> toolCall.name], index)
        s3 == IF Len(toolCall.arguments) > 0
                THEN Emit(s2, [type |-> "tool-input-delta", id |-> toolCall.id,
                               delta |-> toolCall.arguments], index)
                ELSE s2
    IN  IF isParsableJson(toolCall.arguments) THEN FinishToolCall(s3, index) ELSE s3

\* variant: the hasFinished test is missing
NextToolCallDeltaUnguarded(st, toolCallDelta) ==
  LET index == toolCallDelta.index
      toolCall == st.toolCalls[index]
      s1 == IF ~IsNull(toolCallDelta.function.arguments)
              THEN [st EXCEPT !.toolCalls[index].arguments =
                                 @ \o Get(toolCallDelta.function.arguments)]
              ELSE st
      s2 == Emit(s1, [type |-> "tool-input-delta", id |-> toolCall.id,
                      delta |-> OrElse(toolCallDelta.function.arguments, <<>>)], index)
  IN  IF isParsableJson(s2.toolCalls[index].arguments) THEN FinishToolCall(s2, index) ELSE s2

\* 696-724: the index already has an accumulator
NextToolCallDelta(st, toolCallDelta) ==
  LET index == toolCallDelta.index
      toolCall == st.toolCalls[index]
  IN
  IF toolCall.hasFinished THEN st
  ELSE
    LET s1 == IF ~IsNull(toolCallDelta.function.arguments)
                THEN [st EXCEPT !.toolCalls[index].arguments =
                                   @ \o Get(toolCallDelta.function.arguments)]
                ELSE st
        s2 == Emit(s1, [type |-> "tool-input-delta", id |-> toolCall.id,
                        delta |-> OrElse(toolCallDelta.function.arguments, <<>>)], index)
    IN  IF isParsableJson(s2.toolCalls[index].arguments)
          THEN FinishToolCall(s2, index) ELSE s2

\* 631-725: the body of the for loop
ToolCallDelta(st, toolCallDelta) ==
  IF toolCallDelta.index \notin DOMAIN st.toolCalls
    THEN FirstToolCallDelta(st, toolCallDelta)
    ELSE NextToolCallDelta(st, toolCallDelta)

\* 629-726: for (const toolCallDelta of delta.tool_calls); a throw leaves the loop
RECURSIVE ToolCallsLoop(_, _)
ToolCallsLoop(st, deltas) ==
  IF deltas = <<>> \/ st.pc = "errored" THEN st
  ELSE ToolCallsLoop(ToolCallDelta(st, Head(deltas)), Tail(deltas))

ToolCallsBlock(st, delta) ==
  IF ~IsNull(delta.tool_calls) THEN ToolCallsLoop(st, Get(delta.tool_calls)) ELSE st

FirstChoice(value) == IF Len(value.choices) > 0 THEN Some(value.choices[1]) ELSE None

\* 593-726
DeltaBlocks(st, choice) ==
  IF IsNull(choice) \/ IsNull(Get(choice).delta) THEN st
  ELSE LET delta == Get(Get(choice).delta) IN
       ToolCallsBlock(TextBlock(ReasoningBlock(st, delta), delta), delta)

\* variant: the content of the chunk is forwarded before the stream is announced
ChatTransformContentFirst(st, chunk) ==
  IF ~chunk.success THEN ParseFailure(st, chunk)
  ELSE IF chunk.object = Some("error") THEN VendorError(st, chunk)
  ELSE LET choice == FirstChoice(chunk)
           s1 == DeltaBlocks(st, choice)
           s2 == IF s1.pc = "errored" THEN s1 ELSE StreamStartBlock(s1)
           s3 == IF s1.pc = "errored" THEN s1 ELSE FirstChunkBlock(s2, chunk)
           s4 == UsageBlock(s3, chunk)
       IN  FinishReasonBlock(s4, choice)

\* 546-727: transform(chunk, controller)
ChatTransform(st, chunk) ==
  IF ~chunk.success THEN ParseFailure(st, chunk)
  ELSE IF chunk.object = Some("error") THEN VendorError(st, chunk)
  ELSE LET choice == FirstChoice(chunk)
           s1 == StreamStartBlock(st)
           s2 == FirstChunkBlock(s1, chunk)
           s3 == UsageBlock(s2, chunk)
           s4 == FinishReasonBlock(s3, choice)
       IN  DeltaBlocks(s4, choice)

\* variant: finish is enqueued before the sub-streams are closed
ChatFlushFinishFirst(st) ==
  LET s1 == Emit(st, [type |-> "finish", finishReason |-> st.finishReason,
                      usage |-> st.usage], -1)
      s2 == IF ~IsNull(s1.textId)
              THEN Emit(s1, [type |-> "text-end", id |-> Get(s1.textId)], -1) ELSE s1
      s3 == IF ~IsNull(s2.reasoningId)
              THEN Emit(s2, [type |-> "reasoning-end", id |-> Get(s2.reasoningId)], -1)
              ELSE s2
  IN  [s3 EXCEPT !.pc = "closed"]

\* 729-746: flush(controller)
ChatFlush(st) ==
  LET s1 == IF ~IsNull(st.textId)
              THEN Emit(st, [type |-> "text-end", id |-> Get(st.textId)], -1) ELSE st
      s2 == IF ~IsNull(s1.reasoningId)
              THEN Emit(s1, [type |-> "reasoning-end", id |-> Get(s1.reasoningId)], -1)
              ELSE s1
      s3 == Emit(s2, [type |-> "finish", finishReason |-> s2.finishReason,
                      usage |-> s2.usage], -1)
  IN  [s3 EXCEPT !.pc = "closed"]

(***************************************************************************)
(* Completion transform() and flush()                                      *)
(* (qwen-completion-language-model.ts 302-374).                            *)
(***************************************************************************)
\* part_003: the V2 mapper, whose results are plain strings
mapQwenFinishReasonV2(fr) ==
  IF fr = Some("stop") THEN "stop"
  ELSE IF fr = Some("length") THEN "length"
  ELSE IF fr = Some("tool_calls") THEN "tool-calls"
  ELSE "unknown"

\* 335-343
CompletionUsageBlock(st, value) ==
  IF ~IsNull(value.usage)
    THEN LET u == Get(value.usage)
             sum == OrElse(u.prompt_tokens, 0) + OrElse(u.completion_tokens, 0)
         IN  [st EXCEPT !.usage = [inputTokens |-> u.prompt_tokens,
                                   outputTokens |-> u.completion_tokens,
                                   totalTokens |-> IF sum = 0 THEN None ELSE Some(sum)]]
    ELSE st

\* 345-349
CompletionFinishReasonBlock(st, choice) ==
  IF ~IsNull(choice) /\ ~IsNull(Get(choice).finish_reason)
    THEN [st EXCEPT !.finishReason = mapQwenFinishReasonV2(Get(choice).finish_reason)]
    ELSE st

\* 351-361
CompletionTextBlock(st, choice) ==
  IF ~IsNull(choice) /\ ~IsNull(Get(choice).text)
    THEN LET id == generateId(st.idCounter)
             s1 == IF IsNull(st.textId)
                     THEN Emit([st EXCEPT !.textId = Some(id), !.idCounter = @ + 1],
                               [type |-> "text-start", id |-> id], -1)
                     ELSE st
         IN  Emit(s1, [type |-> "text-delta", id |-> Get(s1.textId),
                       delta |-> Get(Get(choice).text)], -1)
    ELSE st

\* 302-362: transform(chunk, controller)
CompletionTransform(st, chunk) ==
  IF ~chunk.success THEN ParseFailure(st, chunk)
  ELSE IF chunk.object = Some("error") THEN VendorError(st, chunk)
  ELSE LET choice == FirstChoice(chunk)
           s1 == StreamStartBlock(st)
           s2 == FirstChunkBlock(s1, chunk)
           s3 == CompletionUsageBlock(s2, chunk)
           s4 == CompletionFinishReasonBlock(s3, choice)
       IN  CompletionTextBlock(s4, choice)

\* variant: flush closes the stream without ending the text
CompletionFlushOpenText(st) ==
  LET s2 == Emit(st, [type |-> "finish", finishReason |-> st.finishReason,
                      usage |-> st.usage], -1)
  IN  [s2 EXCEPT !.pc = "closed"]

\* 364-374: flush(controller)
CompletionFlush(st) ==
  LET s1 == IF ~IsNull(st.textId)
              THEN Emit(st, [type |-> "text-end", id |-> Get(st.textId)], -1) ELSE st
      s2 == Emit(s1, [type |-> "finish", finishReason |-> s1.finishReason,
                      usage |-> s1.usage], -1)
  IN  [s2 EXCEPT !.pc = "closed"]

(***************************************************************************)
(* The chunks the event-source handler can hand to transform(): parse      *)
(* failures, vendor error objects, and values that satisfy the chunk       *)
(* schema (map-qwen-finish-reason.ts 757-799,                              *)
(* qwen-completion-language-model.ts 391-415).                             *)
(***************************************************************************)
UnparsableChunk == [success |-> FALSE, error |-> "parse-failure"]

ErrorChunk == [success |-> TRUE, object |-> Some("error"), message |-> "vendor-message"]

NoIdent == [id |-> None, model |-> None, created |-> None]

FullIdent == [id |-> Some("chatcmpl-1"), model |-> Some("qwen-chat"), created |-> Some(1)]

Chunk(ident, usage, choices) ==
  [success |-> TRUE, object |-> None, id |-> ident.id, model |-> ident.model,
   created |-> ident.created, usage |-> usage, choices |-> choices]

Delta(reasoning, content, toolCalls) ==
  [reasoning_content |-> reasoning, content |-> content, tool_calls |-> toolCalls]

EmptyDelta == Delta(None, None, None)

Choice(delta, finishReason) == [delta |-> delta, finish_reason |-> finishReason]

\* chunks without choices (choices: []), as the vendor's closing usage chunk
MetaChunks ==
  {Chunk(NoIdent, Some([prompt_tokens |-> Some(18), completion_tokens |-> Some(439)]), <<>>),
   Chunk(FullIdent, None, <<>>)}

\* chunks that report a finish reason, with a null or an empty delta
FinishChunks ==
  {Chunk(NoIdent, None, <<Choice(None, Some("stop"))>>),
   Chunk(NoIdent, Some([prompt_tokens |-> Some(7), completion_tokens |-> None]),
         <<Choice(Some(EmptyDelta), Some("eos"))>>)}

\* reasoning and text fragments; "" is a fragment too
ContentChunks ==
  {Chunk(NoIdent, None, <<Choice(Some(Delta(r, c, None)), None)>>) :
     <<r, c>> \in {<<Some(<<"r">>), None>>, <<None, Some(<<>>)>>,
                   <<None, Some(<<"a">>)>>, <<Some(<<"r">>), Some(<<"a">>)>>}}
  \cup {Chunk(FullIdent, None, <<Choice(Some(Delta(None, Some(<<"b">>), None)), None)>>)}

ToolIds == <<"call_a", "call_b", "call_c">>

ToolDelta(index, id, type, name, arguments) ==
  [index |-> index, id |-> id, type |-> type,
   function |-> [name |-> name, arguments |-> arguments]]

\* a delta that opens a call: function type, id and name present
OpenDelta(index, arguments) ==
  ToolDelta(index, Some(ToolIds[index + 1]), Some("function"), Some("fn"), arguments)

\* a delta that only carries a fragment
FragmentDelta(index, arguments) == ToolDelta(index, None, None, None, arguments)

Indices == 0..MaxIndex

OpenDeltas ==
  {OpenDelta(0, a) : a \in {None, Some(<<"[">>), Some(<<"[", "1", "]">>)}}
  \cup {OpenDelta(i, a) : i \in Indices \ {0}, a \in {Some(<<"[">>), Some(<<"1">>)}}

FragmentDeltas ==
  {FragmentDelta(0, a) : a \in {None, Some(<<>>), Some(<<"1">>), Some(<<"]">>)}}
  \cup {FragmentDelta(i, Some(<<"]">>)) : i \in Indices \ {0}}

\* deltas that lack the type, the id or the function name
MalformedDeltas ==
  {ToolDelta(0, Some("call_x"), None, Some("fn"), Some(<<"1">>)),
   ToolDelta(0, None, Some("function"), Some("fn"), Some(<<"1">>)),
   ToolDelta(0, Some("call_x"), Some("function"), None, Some(<<"1">>))}

\* an index whose id repeats the id of index 0
DuplicateIdDeltas ==
  {ToolDelta(i, Some(ToolIds[1]), Some("function"), Some("fn"), Some(<<"[">>)) :
     i \in Indices \ {0}}

ToolDeltaLists ==
  {<<d>> : d \in OpenDeltas \cup FragmentDeltas \cup MalformedDeltas \cup DuplicateIdDeltas}
  \cup {<<OpenDelta(0, Some(<<"[">>)), FragmentDelta(0, Some(<<"]">>))>>,
        <<OpenDelta(0, Some(<<"{", "}">>)), OpenDelta(MaxIndex, Some(<<>>))>>,
        <<OpenDelta(0, Some(<<"[">>)), FragmentDelta(MaxIndex, Some(<<"1">>))>>}

ToolChunks ==
  {Chunk(NoIdent, None, <<Choice(Some(Delta(None, None, Some(l))), None)>>) :
     l \in ToolDeltaLists}

\* text, a tool-call delta and a finish reason in one chunk
MixedChunks ==
  {Chunk(FullIdent, None,
         <<Choice(Some(Delta(None, Some(<<"a">>), Some(<<d>>))), Some("tool_calls"))>>) :
     d \in {OpenDelta(0, Some(<<"1">>)), FragmentDelta(0, Some(<<"1">>))}}

ChatChunks ==
  {UnparsableChunk, ErrorChunk} \cup MetaChunks \cup FinishChunks \cup ContentChunks
  \cup ToolChunks \cup MixedChunks

CompletionChoice(text, finishReason) == [text |-> text, finish_reason |-> finishReason]

CompletionUsage == [prompt_tokens |-> Some(18), completion_tokens |-> Some(439)]

CompletionChunks ==
  {UnparsableChunk, ErrorChunk,
   Chunk(NoIdent, Some(CompletionUsage), <<>>),
   Chunk(NoIdent, Some([prompt_tokens |-> Some(0), completion_tokens |-> Some(0)]), <<>>)}
  \cup {Chunk(i, None, <<CompletionChoice(Some(t), f)>>) :
          i \in {NoIdent, FullIdent}, t \in {<<>>, <<"a">>, <<"b">>},
          f \in {None, Some("stop"), Some("eos")}}

(***************************************************************************)
(* The Message Converter (convert-to-qwen-chat-messages.ts).  Strings are  *)
(* TLA+ strings.  An object literal with a spread, { a: 1, ...options },   *)
(* is options @@ [a |-> 1]: the spread keys come last and win.  A content  *)
(* that is either a string or an array is tagged, Str(s) or Arr(a), and a  *)
(* JSON value carries its kind.  The outcome of a function that can throw  *)
(* is Ok(value) or Failure(...).                                           *)
(***************************************************************************)
Str(s) == [string |-> s]

Arr(a) == [array |-> a]

Ok(v) == [ok |-> TRUE, value |-> v]

\* throw new UnsupportedFunctionalityError({ functionality })
Failure(functionality) ==
  [ok |-> FALSE, error |-> "UnsupportedFunctionalityError", functionality |-> functionality]

\* String.prototype.startsWith
StartsWith(s, prefix) == Len(s) >= Len(prefix) /\ SubSeq(s, 1, Len(prefix)) = prefix

Base64Alphabet == "ABCDEFGHIJKLMNOPQRSTUVWXYZabcdefghijklmnopqrstuvwxyz0123456789+/"

Base64Char(n) == SubSeq(Base64Alphabet, n + 1, n + 1)

\* convertUint8ArrayToBase64 (@ai-sdk/provider-utils): bytes is a sequence of 0..255
RECURSIVE convertUint8ArrayToBase64(_)
convertUint8ArrayToBase64(bytes) ==
  IF bytes = <<>> THEN ""
  ELSE LET n == Len(bytes)
           b1 == bytes[1]
           b2 == IF n >= 2 THEN bytes[2] ELSE 0
           b3 == IF n >= 3 THEN bytes[3] ELSE 0
       IN  Base64Char(b1 \div 4)
           \o Base64Char((b1 % 4) * 16 + (b2 \div 16))
           \o (IF n >= 2 THEN Base64Char((b2 % 16) * 4 + (b3 \div 64)) ELSE "=")
           \o (IF n >= 3 THEN Base64Char(b3 % 64) ELSE "=")
           \o convertUint8ArrayToBase64(IF n > 3 THEN SubSeq(bytes, 4, n) ELSE <<>>)

\* JSON.stringify of a string without special characters, a natural number, or
\* an object given as the sequence of its entries
RECURSIVE JSONstringify(_)
RECURSIVE StringifyEntries(_)
JSONstringify(v) ==
  IF v.kind = "string" THEN "\"" \o v.value \o "\""
  ELSE IF v.kind = "number" THEN ToString(v.number)
  ELSE "{" \o StringifyEntries(v.entries) \o "}"

StringifyEntries(entries) ==
  IF entries = <<>> THEN ""
  ELSE "\"" \o Head(entries).key \o "\":" \o JSONstringify(Head(entries).value)
       \o (IF Len(entries) > 1 THEN "," \o StringifyEntries(Tail(entries)) ELSE "")

\* variant: the options are read from under another provider name
getQwenOptionsIgnored(message) == <<>>

\* 20-24: message?.providerOptions?.qwen ?? {}; providerOptions is an option of
\* the qwen bag
getQwenOptions(message) == OrElse(message.providerOptions, <<>>)

\* 70-82: the url of an image part
ImageUrl(part) ==
  LET data == part.data IN
    IF data.kind = "string"
      THEN (IF StartsWith(data.value, "http") THEN data.value
            ELSE "data:" \o part.mediaType \o ";base64," \o data.value)
    ELSE IF data.kind = "URL" THEN data.href
    ELSE "data:" \o part.mediaType \o ";base64," \o convertUint8ArrayToBase64(data.bytes)

\* 59-100: the callback of content.map
UserPart(part) ==
  LET partOptions == getQwenOptions(part) IN
    IF part.type = "text"
      THEN Ok(partOptions @@ [type |-> "text", text |-> part.text])
    ELSE IF part.type = "file"
      THEN (IF part.mediaType # "" /\ StartsWith(part.mediaType, "image/")
              THEN Ok(partOptions @@ [type |-> "image_url",
                                      image_url |-> [url |-> ImageUrl(part)]])
              ELSE Failure("Non-image file content parts in user messages"))
    ELSE Failure("Unsupported content part type")

\* 59: content.map(...), left to right; the first throw leaves the map
RECURSIVE MapUserParts(_)
MapUserParts(content) ==
  IF content = <<>> THEN Ok(<<>>)
  ELSE LET first == UserPart(Head(content)) IN
         IF ~first.ok THEN first
         ELSE LET rest == MapUserParts(Tail(content)) IN
                IF ~rest.ok THEN rest ELSE Ok(<<first.value>> \o rest.value)

\* variant: a single part is sent as an array like any other content
UserTurnNeverCollapsed(content, options) ==
  LET parts == MapUserParts(content) IN
    IF ~parts.ok THEN parts
    ELSE Ok(<<options @@ [role |-> "user", content |-> Arr(parts.value)]>>)

\* 46-107: case "user"
UserTurn(content, options) ==
  IF Len(content) = 1 /\ content[1].type = "text"
    THEN Ok(<<getQwenOptions(content[1])
              @@ [role |-> "user", content |-> Str(content[1].text)]>>)
    ELSE LET parts == MapUserParts(content) IN
           IF ~parts.ok THEN parts
           ELSE Ok(<<options @@ [role |-> "user", content |-> Arr(parts.value)]>>)

\* 118-158: for (const part of content), with the text and tool calls so far
RECURSIVE AssistantParts(_, _, _)
AssistantParts(content, text, toolCalls) ==
  IF content = <<>> THEN Ok([text |-> text, toolCalls |-> toolCalls])
  ELSE LET part == Head(content)
           partOptions == getQwenOptions(part)
       IN  IF part.type = "text"
             THEN AssistantParts(Tail(content), text \o part.text, toolCalls)
           ELSE IF part.type = "tool-call"
             THEN AssistantParts(Tail(content), text,
                    Append(toolCalls,
                           partOptions
                           @@ [id |-> part.toolCallId, type |-> "function",
                               function |-> [name |-> part.toolName,
                                             arguments |-> JSONstringify(part.input)]]))
           ELSE IF part.type \in {"file", "reasoning"}
             THEN Failure(part.type \o " content parts in assistant messages")
           ELSE Failure("tool-result content parts in assistant messages")

\* variant: an unsupported part is skipped
AssistantTurnLenient(content, options) ==
  LET supported == SelectSeq(content, LAMBDA part : part.type \in {"text", "tool-call"})
      parts == AssistantParts(supported, "", <<>>)
  IN  Ok(<<options
           @@ [role |-> "assistant", content |-> Str(parts.value.text),
               tool_calls |-> IF Len(parts.value.toolCalls) > 0
                                THEN Some(parts.value.toolCalls) ELSE None]>>)

\* 109-168: case "assistant"
AssistantTurn(content, options) ==
  LET parts == AssistantParts(content, "", <<>>) IN
    IF ~parts.ok THEN parts
    ELSE Ok(<<options
              @@ [role |-> "assistant", content |-> Str(parts.value.text),
                  tool_calls |-> IF Len(parts.value.toolCalls) > 0
                                   THEN Some(parts.value.toolCalls) ELSE None]>>)

\* variant: the options of the tool response are not spread
ToolResponseBare(toolResponse) ==
  LET output == toolResponse.output
      toolContent == IF output.type \in {"text", "error-text"} THEN output.value.value
                     ELSE JSONstringify(output.value)
  IN  [role |-> "tool", tool_call_id |-> toolResponse.toolCallId,
       content |-> Str(toolContent)]

\* 172-192: one message for one tool response
ToolResponse(toolResponse) ==
  LET toolResponseOptions == getQwenOptions(toolResponse)
      output == toolResponse.output
      toolContent == IF output.type \in {"text", "error-text"} THEN output.value.value
                     ELSE JSONstringify(output.value)
  IN  toolResponseOptions
      @@ [role |-> "tool", tool_call_id |-> toolResponse.toolCallId,
          content |-> Str(toolContent)]

\* variant: the tool responses of a turn are sent last first
ToolTurnReversed(content, options) ==
  Ok([i \in 1..Len(content) |-> ToolResponse(content[Len(content) + 1 - i])])

\* 170-194: case "tool"
ToolTurn(content, options) ==
  Ok([i \in 1..Len(content) |-> ToolResponse(content[i])])

\* 37-202: the body of for (const { role, content, ...message } of prompt)
Turn(turn) ==
  LET options == getQwenOptions(turn) IN
    IF turn.role = "system"
      THEN Ok(<<options @@ [role |-> "system", content |-> Str(turn.content.string)]>>)
    ELSE IF turn.role = "user" THEN UserTurn(turn.content.array, options)
    ELSE IF turn.role = "assistant" THEN AssistantTurn(turn.content.array, options)
    ELSE ToolTurn(turn.content.array, options)

\* 37: the loop, with the messages pushed so far; a throw discards them
RECURSIVE ConvertTurns(_, _)
ConvertTurns(prompt, messages) ==
  IF prompt = <<>> THEN Ok(messages)
  ELSE LET pushed == Turn(Head(prompt)) IN
         IF ~pushed.ok THEN pushed
         ELSE ConvertTurns(Tail(prompt), messages \o pushed.value)

\* 32-205
convertToQwenChatMessages(prompt) == ConvertTurns(prompt, <<>>)

(***************************************************************************)
(* The conversation turns a caller can hand to the chat model              *)
(* (LanguageModelV2Prompt).                                                *)
(***************************************************************************)
\* providerOptions.qwen of a turn and of a part; "shared" is set at both levels
TurnOptions == [turnOnly |-> "turn-level", shared |-> "turn-level"]

PartOptions == [partOnly |-> "part-level", shared |-> "part-level"]

TextPart(text, providerOptions) ==
  [type |-> "text", text |-> text, providerOptions |-> providerOptions]

FilePart(mediaType, data, providerOptions) ==
  [type |-> "file", mediaType |-> mediaType, data |-> data,
   providerOptions |-> providerOptions]

ReasoningPart(text) == [type |-> "reasoning", text |-> text, providerOptions |-> None]

ToolCallPart(toolCallId, input, providerOptions) ==
  [type |-> "tool-call", toolCallId |-> toolCallId, toolName |-> "fn", input |-> input,
   providerOptions |-> providerOptions]

ToolResultPart(toolCallId, output, providerOptions) ==
  [type |-> "tool-result", toolCallId |-> toolCallId, toolName |-> "fn",
   output |-> output, providerOptions |-> providerOptions]

JsonInput ==
  [kind |-> "object",
   entries |-> <<[key |-> "q", value |-> [kind |-> "string", value |-> "x"]],
                 [key |-> "n", value |-> [kind |-> "number", number |-> 1]]>>]

TextOutput == [type |-> "text", value |-> [kind |-> "string", value |-> "done"]]

PngUrl == FilePart("image/png", [kind |-> "string", value |-> "https://x/a.png"], None)

PngBase64 ==
  FilePart("image/png", [kind |-> "string", value |-> "AAEC"], Some(PartOptions))

PngObject == FilePart("image/png", [kind |-> "URL", href |-> "https://x/b.png"], None)

PngBytes == FilePart("image/png", [kind |-> "bytes", bytes |-> <<0, 1, 2, 3>>], None)

PdfFile == FilePart("application/pdf", [kind |-> "string", value |-> "AAEC"], None)

UntypedFile == FilePart("", [kind |-> "string", value |-> "AAEC"], Some(PartOptions))

UserContents ==
  {<<>>,
   <<TextPart("Hi", None)>>,
   <<TextPart("Hi", Some(PartOptions))>>,
   <<TextPart("Hi", None), TextPart("there", Some(PartOptions))>>,
   <<PngUrl>>,
   <<PngBase64>>,
   <<TextPart("Hi", Some(PartOptions)), PngObject>>,
   <<PngBytes, TextPart("Hi", None)>>,
   <<PdfFile>>,
   <<TextPart("Hi", None), PdfFile>>,
   <<UntypedFile, TextPart("Hi", None)>>}

AssistantContents ==
  {<<>>,
   <<TextPart("A", None)>>,
   <<TextPart("A", Some(PartOptions)), TextPart("B", None)>>,
   <<ToolCallPart("call_a", JsonInput, None)>>,
   <<TextPart("A", None), ToolCallPart("call_a", JsonInput, Some(PartOptions)),
     ToolCallPart("call_b", [kind |-> "string", value |-> "x"], None)>>,
   <<ReasoningPart("think"), TextPart("A", None)>>,
   <<TextPart("A", None), PdfFile>>,
   <<ToolCallPart("call_a", JsonInput, None), ToolResultPart("call_a", TextOutput, None)>>}

ToolContents ==
  {<<>>,
   <<ToolResultPart("call_a", TextOutput, None)>>,
   <<ToolResultPart("call_a", [type |-> "json", value |-> JsonInput], Some(PartOptions)),
     ToolResultPart("call_b", [type |-> "error-text",
                               value |-> [kind |-> "string", value |-> "failed"]], None)>>}

Turns ==
  {[role |-> "system", content |-> Str("Be brief"), providerOptions |-> o] :
     o \in {None, Some(TurnOptions)}}
  \cup {[role |-> "user", content |-> Arr(c), providerOptions |-> o] :
          c \in UserContents, o \in {None, Some(TurnOptions)}}
  \cup {[role |-> "assistant", content |-> Arr(c), providerOptions |-> o] :
          c \in AssistantContents, o \in {None, Some(TurnOptions)}}
  \cup {[role |-> "tool", content |-> Arr(c), providerOptions |-> o] :
          c \in ToolContents, o \in {None, Some(TurnOptions)}}

Prompts == UNION {[1..n -> Turns] : n \in 0..MaxTurns}

(***************************************************************************)
(* The arguments of a request.  Every adapter reads the caller's provider  *)
(* options from under the first segment of its provider name and spreads   *)
(* them onto the body.                                                     *)
(***************************************************************************)
RECURSIVE IndexOfDot(_, _)
IndexOfDot(s, i) ==
  IF i > Len(s) THEN 0
  ELSE IF SubSeq(s, i, i) = "." THEN i
  ELSE IndexOfDot(s, i + 1)

RECURSIVE trim(_)
trim(s) ==
  IF Len(s) > 0 /\ SubSeq(s, 1, 1) = " " THEN trim(SubSeq(s, 2, Len(s)))
  ELSE IF Len(s) > 0 /\ SubSeq(s, Len(s), Len(s)) = " " THEN trim(SubSeq(s, 1, Len(s) - 1))
  ELSE s

\* this.config.provider.split(".")[0].trim()
providerOptionsName(provider) ==
  LET dot == IndexOfDot(provider, 1) IN
    trim(IF dot = 0 THEN provider ELSE SubSeq(provider, 1, dot - 1))

\* providerOptions?.[providerOptionsName]; an absent bag spreads as nothing
specificProviderOptions(cfg, providerOptions) ==
  LET name == providerOptionsName(cfg.provider) IN
    IF IsNull(providerOptions) THEN <<>>
    ELSE IF name \in DOMAIN Get(providerOptions) THEN Get(providerOptions)[name]
    ELSE <<>>

\* 238-249: the warning for a json schema that cannot be sent
ResponseFormatWarning(supportsStructuredOutputs, responseFormat) ==
  IF /\ ~IsNull(responseFormat)
     /\ Get(responseFormat).type = "json"
     /\ ~IsNull(Get(responseFormat).schema)
     /\ ~supportsStructuredOutputs
    THEN <<[type |-> "unsupported", feature |-> "responseFormat",
            details |-> "JSON response format schema is only supported with structuredOutputs"]>>
    ELSE <<>>

\* variant: a schema is sent whenever one is present
response_formatSchemaAlways(supportsStructuredOutputs, responseFormat) ==
  IF ~IsNull(responseFormat) /\ Get(responseFormat).type = "json"
    THEN IF ~IsNull(Get(responseFormat).schema)
           THEN Some([type |-> "json_schema",
                      json_schema |-> [schema |-> Get(Get(responseFormat).schema),
                                       name |-> OrElse(Get(responseFormat).name, "response"),
                                       description |-> Get(responseFormat).description]])
           ELSE Some([type |-> "json_object"])
    ELSE None

\* 306-319: the response_format argument, undefined for a request that is not json
response_format(supportsStructuredOutputs, responseFormat) ==
  IF ~IsNull(responseFormat) /\ Get(responseFormat).type = "json"
    THEN IF supportsStructuredOutputs = TRUE /\ ~IsNull(Get(responseFormat).schema)
           THEN Some([type |-> "json_schema",
                      json_schema |-> [schema |-> Get(Get(responseFormat).schema),
                                       name |-> OrElse(Get(responseFormat).name, "response"),
                                       description |-> Get(responseFormat).description]])
           ELSE Some([type |-> "json_object"])
    ELSE None

\* variant: a tool of another type is dropped without a warning
RECURSIVE openaiToolsSilent(_)
openaiToolsSilent(tools) ==
  IF tools = <<>> THEN [tools |-> <<>>, warnings |-> <<>>]
  ELSE LET tool == Head(tools)
           rest == openaiToolsSilent(Tail(tools))
       IN  IF tool.type = "function"
             THEN [tools |-> <<[type |-> "function",
                                function |-> [name |-> tool.name,
                                              description |-> tool.description,
                                              parameters |-> tool.inputSchema]]>>
                               \o rest.tools,
                   warnings |-> rest.warnings]
             ELSE rest

\* 252-271: tools.map(...).filter(t => t !== null), with the warnings the map pushes
RECURSIVE openaiTools(_)
openaiTools(tools) ==
  IF tools = <<>> THEN [tools |-> <<>>, warnings |-> <<>>]
  ELSE LET tool == Head(tools)
           rest == openaiTools(Tail(tools))
       IN  IF tool.type = "function"
             THEN [tools |-> <<[type |-> "function",
                                function |-> [name |-> tool.name,
                                              description |-> tool.description,
                                              parameters |-> tool.inputSchema]]>>
                               \o rest.tools,
                   warnings |-> rest.warnings]
             ELSE [tools |-> rest.tools,
                   warnings |-> <<[type |-> "unsupported",
                                   feature |-> "tool type: " \o tool.type]>>
                                  \o rest.warnings]

\* 274-291
openaiToolChoice(toolChoice) ==
  IF IsNull(toolChoice) THEN None
  ELSE IF Get(toolChoice).type \in {"auto", "none", "required"}
    THEN Some([kind |-> "string", value |-> Get(toolChoice).type])
  ELSE IF Get(toolChoice).type = "tool"
    THEN Some([kind |-> "object", type |-> "function",
               function |-> [name |-> Get(toolChoice).toolName]])
  ELSE None

\* 231-236
topKWarning(topK) ==
  IF IsNull(topK) THEN <<>> ELSE <<[type |-> "unsupported", feature |-> "topK"]>>

\* QwenChatLanguageModel.getArgs (map-qwen-finish-reason.ts 214-333); an undefined
\* argument is None.  supportsStructuredOutputs is config.supportsStructuredOutputs
\* ?? false (176).
getArgs(cfg, opts) ==
  LET supportsStructuredOutputs == OrElse(cfg.supportsStructuredOutputs, FALSE)
      mappedTools == IF IsNull(opts.tools) THEN None ELSE Some(openaiTools(Get(opts.tools)))
      warnings == topKWarning(opts.topK)
                    \o ResponseFormatWarning(supportsStructuredOutputs, opts.responseFormat)
                    \o (IF IsNull(mappedTools) THEN <<>> ELSE Get(mappedTools).warnings)
      messages == convertToQwenChatMessages(opts.prompt)
  IN  IF ~messages.ok THEN messages
      ELSE Ok([args |->
                 [messages |-> messages.value,
                  tools |-> IF ~IsNull(mappedTools) /\ Len(Get(mappedTools).tools) > 0
                              THEN Some(Get(mappedTools).tools) ELSE None,
                  tool_choice |-> openaiToolChoice(opts.toolChoice)]
                 @@ specificProviderOptions(cfg, opts.providerOptions)
                 @@ [model |-> cfg.modelId, user |-> cfg.settings.user,
                     max_tokens |-> opts.maxOutputTokens, temperature |-> opts.temperature,
                     top_p |-> opts.topP, frequency_penalty |-> opts.frequencyPenalty,
                     presence_penalty |-> opts.presencePenalty,
                     response_format |->
                       response_format(supportsStructuredOutputs, opts.responseFormat),
                     stop |-> opts.stopSequences, seed |-> opts.seed],
               warnings |-> warnings])

(***************************************************************************)
(* The Prompt Flattener (convert-to-qwen-completion-prompt.ts, not part of *)
(* the sources at hand) as the specification describes it: the text of a   *)
(* lone user text part verbatim; otherwise an optional leading system text *)
(* and one labelled block per user or assistant turn, closed by the        *)
(* assistant label, with the user label as stop sequence.  A part that is  *)
(* not text is rejected.                                                   *)
(***************************************************************************)
InvalidPrompt == [ok |-> FALSE, error |-> "InvalidPromptError", functionality |-> ""]

RECURSIVE FlattenParts(_)
FlattenParts(content) ==
  IF content = <<>> THEN Ok("")
  ELSE IF Head(content).type # "text" THEN Failure(Head(content).type)
  ELSE LET rest == FlattenParts(Tail(content)) IN
         IF ~rest.ok THEN rest ELSE Ok(Head(content).text \o rest.value)

RECURSIVE FlattenTurns(_, _)
FlattenTurns(turns, first) ==
  IF turns = <<>> THEN Ok("assistant:\n")
  ELSE LET turn == Head(turns)
           rest == FlattenTurns(Tail(turns), FALSE)
           body == IF "string" \in DOMAIN turn.content THEN Ok(turn.content.string)
                   ELSE FlattenParts(turn.content.array)
       IN  IF turn.role = "system" /\ ~first THEN InvalidPrompt
           ELSE IF turn.role = "tool" THEN Failure("tool messages")
           ELSE IF ~body.ok THEN body
           ELSE IF ~rest.ok THEN rest
           ELSE IF turn.role = "system" THEN Ok(body.value \o "\n\n" \o rest.value)
           ELSE Ok(turn.role \o ":\n" \o body.value \o "\n\n" \o rest.value)

convertToQwenCompletionPrompt(prompt) ==
  IF /\ Len(prompt) = 1
     /\ prompt[1].role = "user"
     /\ Len(prompt[1].content.array) = 1
     /\ prompt[1].content.array[1].type = "text"
    THEN Ok([prompt |-> prompt[1].content.array[1].text, stopSequences |-> None])
    ELSE LET flat == FlattenTurns(prompt, TRUE) IN
           IF ~flat.ok THEN flat
           ELSE Ok([prompt |-> flat.value, stopSequences |-> Some(<<"\nuser:">>)])

(***************************************************************************)
(* QwenCompletionLanguageModel.getArgs                                     *)
(* (qwen-completion-language-model.ts 112-182).                            *)
(***************************************************************************)
\* variant: a tool choice of type none passes
ToolChoiceSuppliedExceptNone(toolChoice) ==
  ~IsNull(toolChoice) /\ Get(toolChoice).type # "none"

\* 154: if (toolChoice); a tool choice is an object, so it is truthy when present
ToolChoiceSupplied(toolChoice) == ~IsNull(toolChoice)

\* 147: tools && tools.length > 0
ToolsSupplied(tools) == ~IsNull(tools) /\ Len(Get(tools)) > 0

\* 131-144
CompletionWarnings(opts) ==
  (IF IsNull(opts.topK) THEN <<>>
   ELSE <<[type |-> "unsupported-setting", setting |-> "topK"]>>)
    \o (IF ~IsNull(opts.responseFormat) /\ Get(opts.responseFormat).type # "text"
          THEN <<[type |-> "unsupported-setting", setting |-> "responseFormat",
                  details |-> "JSON response format is not supported."]>>
          ELSE <<>>)

getCompletionArgs(cfg, opts) ==
  IF ToolsSupplied(opts.tools) THEN Failure("tools")
  ELSE IF ToolChoiceSupplied(opts.toolChoice) THEN Failure("toolChoice")
  ELSE LET flat == convertToQwenCompletionPrompt(opts.prompt) IN
         IF ~flat.ok THEN flat
         ELSE LET stop == OrElse(flat.value.stopSequences, <<>>)
                            \o OrElse(opts.stopSequences, <<>>)
              IN  Ok([args |->
                        [prompt |-> flat.value.prompt,
                         stop |-> IF Len(stop) > 0 THEN Some(stop) ELSE None]
                        @@ specificProviderOptions(cfg, opts.providerOptions)
                        @@ [model |-> cfg.modelId, echo |-> cfg.settings.echo,
                            logit_bias |-> cfg.settings.logitBias,
                            suffix |-> cfg.settings.suffix, user |-> cfg.settings.user,
                            max_tokens |-> opts.maxOutputTokens,
                            temperature |-> opts.temperature, top_p |-> opts.topP,
                            frequency_penalty |-> opts.frequencyPenalty,
                            presence_penalty |-> opts.presencePenalty,
                            seed |-> opts.seed],
                      warnings |-> CompletionWarnings(opts)])

(***************************************************************************)
(* The options of a language-model call (LanguageModelV3CallOptions).      *)
(***************************************************************************)
MaxTools == 2

FunctionTool(name) ==
  [type |-> "function", name |-> name, description |-> Some("a tool"),
   inputSchema |-> JsonInput]

ProviderTool == [type |-> "provider", id |-> "qwen.search", name |-> "search"]

ToolKinds == {FunctionTool("alpha"), FunctionTool("beta"), ProviderTool}

\* tools absent, or any list of up to MaxTools tools
ToolLists == {None} \cup {Some(l) : l \in UNION {[1..n -> ToolKinds] : n \in 0..MaxTools}}

ToolChoices ==
  {None, Some([type |-> "auto"]), Some([type |-> "none"]), Some([type |-> "required"]),
   Some([type |-> "tool", toolName |-> "alpha"])}

ResponseFormats ==
  {None, Some([type |-> "text"]),
   Some([type |-> "json", schema |-> None, name |-> None, description |-> None]),
   Some([type |-> "json", schema |-> Some(JsonInput), name |-> None, description |-> None]),
   Some([type |-> "json", schema |-> Some(JsonInput), name |-> Some("answer"),
         description |-> Some("the answer")])}

TopKs == {None, Some(40)}

\* one turn to answer, a conversation, and a turn no converter accepts
CallPrompts ==
  {<<[role |-> "user", content |-> Arr(<<TextPart("Hi", None)>>), providerOptions |-> None]>>,
   <<[role |-> "system", content |-> Str("Be brief"), providerOptions |-> None],
     [role |-> "user", content |-> Arr(<<TextPart("Hi", None), TextPart("there", None)>>),
      providerOptions |-> None]>>,
   <<[role |-> "user", content |-> Arr(<<PdfFile>>), providerOptions |-> None]>>}

CallProviderOptions == {None, Some([qwen |-> [enable_thinking |-> TRUE]])}

(***************************************************************************)
(* State: the locals of one doStream call.                                 *)
(***************************************************************************)
VARIABLES
  api,              \* "chat" | "completion": the model doStream was called on
  pc,               \* "streaming" | "closed" (flush ran) | "errored" (transform threw)
  failure,          \* message of the thrown InvalidResponseDataError, "" if none
  events,           \* the stream parts enqueued so far
  origin,           \* history: per event, the chunk number (0: flush) and tool index
  input,            \* history: the chunks handed to transform()
  toolCalls,        \* index -> [id, name, arguments, hasFinished]
  finishReason,
  usage,
  isFirstChunk,
  hasStreamStarted,
  textId,
  reasoningId,
  idCounter,        \* number of ids generateId has produced
  concurrent,       \* the locals of each of the doStream calls running on one instance
  requests,         \* number of HTTP requests the call has issued (postJsonToApi)
  result,           \* what doGenerate resolved with (an option)
  prompt,           \* the conversation turns handed to the call
  messages,         \* outcome of convertToQwenChatMessages (an option)
  vendorReason,     \* argument of the finish-reason mapper
  mapped,           \* what the finish-reason mapper returned (an option)
  config,           \* the model as constructed: modelId, settings and config
  options,          \* the call options handed to doEmbed, doRerank, doGenerate, doStream
  posted,           \* the requests handed to postJsonToApi: url and body, in order
  warnings          \* the warnings the call has collected

streamVars == <<api, pc, failure, events, origin, input, toolCalls, finishReason, usage,
                isFirstChunk, hasStreamStarted, textId, reasoningId, idCounter>>

callVars == <<concurrent, requests, result, prompt, messages, vendorReason, mapped>>

requestVars == <<config, options, posted, warnings>>

vars == <<streamVars, callVars, requestVars>>

\* the locals as one record, n being the number of the chunk about to be processed
State(n) ==
  [pc |-> pc, failure |-> failure, n |-> n, events |-> events, origin |-> origin,
   toolCalls |-> toolCalls, finishReason |-> finishReason, usage |-> usage,
   isFirstChunk |-> isFirstChunk, hasStreamStarted |-> hasStreamStarted,
   textId |-> textId, reasoningId |-> reasoningId, idCounter |-> idCounter]

Becomes(st) ==
  /\ pc' = st.pc
  /\ failure' = st.failure
  /\ events' = st.events
  /\ origin' = st.origin
  /\ toolCalls' = st.toolCalls
  /\ finishReason' = st.finishReason
  /\ usage' = st.usage
  /\ isFirstChunk' = st.isFirstChunk
  /\ hasStreamStarted' = st.hasStreamStarted
  /\ textId' = st.textId
  /\ reasoningId' = st.reasoningId
  /\ idCounter' = st.idCounter

InitOf(kind) ==
  /\ api = kind
  /\ input = <<>>
  /\ LET st == InitialState(kind) IN
       /\ pc = st.pc
       /\ failure = st.failure
       /\ events = st.events
       /\ origin = st.origin
       /\ toolCalls = st.toolCalls
       /\ finishReason = st.finishReason
       /\ usage = st.usage
       /\ isFirstChunk = st.isFirstChunk
       /\ hasStreamStarted = st.hasStreamStarted
       /\ textId = st.textId
       /\ reasoningId = st.reasoningId
       /\ idCounter = st.idCounter
  /\ concurrent = <<>>
  /\ requests = 1
  /\ result = None
  /\ prompt = <<>>
  /\ messages = None
  /\ vendorReason = None
  /\ mapped = None
  /\ config = None
  /\ options = None
  /\ posted = <<>>
  /\ warnings = <<>>

\* the transport delivers one more chunk to the chat transcoder
ChatChunk ==
  /\ api = "chat"
  /\ pc = "streaming"
  /\ Len(input) < MaxChunks
  /\ \E chunk \in ChatChunks :
       /\ input' = Append(input, chunk)
       /\ Becomes(ChatTransform(State(Len(input) + 1), chunk))
  /\ UNCHANGED <<api, callVars, requestVars>>

\* the input of the chat stream ends
ChatEnd ==
  /\ api = "chat"
  /\ pc = "streaming"
  /\ Becomes(ChatFlush(State(0)))
  /\ UNCHANGED <<api, input, callVars, requestVars>>

CompletionChunk ==
  /\ api = "completion"
  /\ pc = "streaming"
  /\ Len(input) < MaxChunks
  /\ \E chunk \in CompletionChunks :
       /\ input' = Append(input, chunk)
       /\ Becomes(CompletionTransform(State(Len(input) + 1), chunk))
  /\ UNCHANGED <<api, callVars, requestVars>>

CompletionEnd ==
  /\ api = "completion"
  /\ pc = "streaming"
  /\ Becomes(CompletionFlush(State(0)))
  /\ UNCHANGED <<api, input, callVars, requestVars>>

Init == InitOf("chat")

Next == ChatChunk \/ ChatEnd

Spec == Init /\ [][Next]_vars

CompletionInit == InitOf("completion")

CompletionNext == CompletionChunk \/ CompletionEnd

CompletionSpec == CompletionInit /\ [][CompletionNext]_vars

StreamsInit == InitOf("chat") \/ InitOf("completion")

StreamsNext == ChatChunk \/ ChatEnd \/ CompletionChunk \/ CompletionEnd

StreamsSpec == StreamsInit /\ [][StreamsNext]_vars

(***************************************************************************)
(* QwenChatLanguageModel.doGenerate and the simulateStreaming branch of    *)
(* doStream (map-qwen-finish-reason.ts 341-421 and 431-495).               *)
(***************************************************************************)
ResponseToolCall(id, arguments) ==
  [id |-> id, type |-> "function", function |-> [name |-> "fn", arguments |-> arguments]]

ResponseMessage(reasoning, content, toolCallList) ==
  [reasoning_content |-> reasoning, content |-> content, tool_calls |-> toolCallList]

\* bodies that satisfy QwenChatResponseSchema (92-124), with one choice
ChatResponses ==
  {[ok |-> TRUE, id |-> i.id, model |-> i.model, created |-> i.created,
    choices |-> <<[message |-> ResponseMessage(r, c, t), finish_reason |-> f]>>,
    usage |-> u] :
     i \in {NoIdent, FullIdent},
     r \in {None, Some(<<>>), Some(<<"r">>)},
     c \in {None, Some(<<>>), Some(<<"a">>)},
     t \in {None, Some(<<>>), Some(<<ResponseToolCall(Some("call_a"), <<"{", "}">>)>>),
            Some(<<ResponseToolCall(Some("call_a"), <<"{", "}">>),
                   ResponseToolCall(None, <<"1">>)>>)},
     f \in {None, Some("stop"), Some("tool_calls")},
     u \in {None, Some([prompt_tokens |-> Some(4), completion_tokens |-> None])}}

\* postJsonToApi rejected: a failed response or a body that violates the schema
FailedResponse == [ok |-> FALSE]

\* 393-402: one tool-call part per tool call, toolCallId: toolCall.id ?? generateId()
RECURSIVE ToolCallParts(_, _)
ToolCallParts(toolCallList, counter) ==
  IF toolCallList = <<>> THEN [content |-> <<>>, idCounter |-> counter]
  ELSE LET toolCall == Head(toolCallList)
           fresh == IsNull(toolCall.id)
           rest == ToolCallParts(Tail(toolCallList), IF fresh THEN counter + 1 ELSE counter)
       IN  [content |-> <<[type |-> "tool-call",
                           toolCallId |-> IF fresh THEN generateId(counter)
                                          ELSE Get(toolCall.id),
                           toolName |-> toolCall.function.name,
                           input |-> toolCall.function.arguments]>> \o rest.content,
            idCounter |-> rest.idCounter]

\* 368-419: the result doGenerate builds from the response body; a string is
\* truthy when it is non-empty
GenerateResult(responseBody, counter) ==
  LET choice == responseBody.choices[1]
      message == choice.message
      reasoning == IF OrElse(message.reasoning_content, <<>>) # <<>>
                     THEN <<[type |-> "reasoning", text |-> Get(message.reasoning_content)]>>
                     ELSE <<>>
      text == IF OrElse(message.content, <<>>) # <<>>
                THEN <<[type |-> "text", text |-> Get(message.content)]>>
                ELSE <<>>
      tools == ToolCallParts(OrElse(message.tool_calls, <<>>), counter)
      u == OrElse(responseBody.usage, [prompt_tokens |-> None, completion_tokens |-> None])
  IN  [content |-> reasoning \o text \o tools.content,
       finishReason |-> mapQwenFinishReason(choice.finish_reason),
       usage |-> buildUsage(u.prompt_tokens, u.completion_tokens),
       response |-> getResponseMetadata(responseBody),
       idCounter |-> tools.idCounter]

\* variant: a text or reasoning part is forwarded as a bare delta
SimulatedPartBareDelta(st, part) ==
  IF part.type \in {"reasoning", "text"}
    THEN Emit([st EXCEPT !.idCounter = @ + 1],
              [type |-> part.type \o "-delta", id |-> generateId(st.idCounter),
               delta |-> part.text], -1)
    ELSE Emit(st, [type |-> "tool-call", toolCallId |-> part.toolCallId,
                   toolName |-> part.toolName, input |-> part.input], -1)

\* 452-475: the body of for (const part of result.content)
SimulatedPart(st, part) ==
  IF part.type \in {"reasoning", "text"}
    THEN LET id == generateId(st.idCounter)
             s1 == Emit([st EXCEPT !.idCounter = @ + 1],
                        [type |-> part.type \o "-start", id |-> id], -1)
             s2 == Emit(s1, [type |-> part.type \o "-delta", id |-> id,
                             delta |-> part.text], -1)
         IN  Emit(s2, [type |-> part.type \o "-end", id |-> id], -1)
    ELSE Emit(st, [type |-> "tool-call", toolCallId |-> part.toolCallId,
                   toolName |-> part.toolName, input |-> part.input], -1)

RECURSIVE SimulatedParts(_, _)
SimulatedParts(st, content) ==
  IF content = <<>> THEN st
  ELSE SimulatedParts(SimulatedPart(st, Head(content)), Tail(content))

\* 435-485: start(controller) of the simulated stream
SimulatedStreamStart(st, res) ==
  LET s1 == Emit(st, [type |-> "stream-start"], -1)
      s2 == Emit(s1, [type |-> "response-metadata", id |-> res.response.id,
                      timestamp |-> res.response.timestamp,
                      modelId |-> res.response.modelId], -1)
      s3 == SimulatedParts(s2, res.content)
      s4 == Emit(s3, [type |-> "finish", finishReason |-> res.finishReason,
                      usage |-> res.usage], -1)
  IN  [s4 EXCEPT !.pc = "closed"]

\* 433: const result = await this.doGenerate(options), one POST to /chat/completions
DoGenerate ==
  /\ api = "chat-simulated"
  /\ pc = "calling"
  /\ requests' = requests + 1
  /\ \E responseBody \in ChatResponses \cup {FailedResponse} :
       IF responseBody.ok
         THEN LET res == GenerateResult(responseBody, idCounter) IN
                /\ result' = Some([content |-> res.content,
                                   finishReason |-> res.finishReason,
                                   usage |-> res.usage, response |-> res.response])
                /\ idCounter' = res.idCounter
                /\ pc' = "generated"
         ELSE /\ pc' = "rejected"
              /\ UNCHANGED <<result, idCounter>>
  /\ UNCHANGED <<api, failure, events, origin, input, toolCalls, finishReason, usage,
                 isFirstChunk, hasStreamStarted, textId, reasoningId>>
  /\ UNCHANGED <<concurrent, prompt, messages, vendorReason, mapped, requestVars>>

\* 434-486: new ReadableStream({ start }) runs start, which enqueues every part
SimulatedStream ==
  /\ api = "chat-simulated"
  /\ pc = "generated"
  /\ Becomes(SimulatedStreamStart(State(0), Get(result)))
  /\ UNCHANGED <<api, input, callVars, requestVars>>

SimulateInit ==
  /\ api = "chat-simulated"
  /\ input = <<>>
  /\ LET st == InitialState("chat") IN
       /\ pc = "calling"
       /\ failure = st.failure
       /\ events = st.events
       /\ origin = st.origin
       /\ toolCalls = st.toolCalls
       /\ finishReason = st.finishReason
       /\ usage = st.usage
       /\ isFirstChunk = st.isFirstChunk
       /\ hasStreamStarted = st.hasStreamStarted
       /\ textId = st.textId
       /\ reasoningId = st.reasoningId
       /\ idCounter = st.idCounter
  /\ concurrent = <<>>
  /\ requests = 0
  /\ result = None
  /\ prompt = <<>>
  /\ messages = None
  /\ vendorReason = None
  /\ mapped = None
  /\ config = None
  /\ options = None
  /\ posted = <<>>
  /\ warnings = <<>>

SimulateNext == DoGenerate \/ SimulatedStream

SimulateSpec == SimulateInit /\ [][SimulateNext]_vars

(***************************************************************************)
(* Two doStream calls on one QwenChatLanguageModel instance.  The instance *)
(* holds only read-only fields (modelId, settings, config, chunkSchema:    *)
(* map-qwen-finish-reason.ts 142-177); the transcoder locals are declared  *)
(* inside doStream (526-538), so every call has its own.                   *)
(***************************************************************************)
ConcurrentCalls == {1, 2}

ConcurrentChunks ==
  {Chunk(NoIdent, None, <<Choice(Some(Delta(None, Some(<<"a">>), None)), None)>>),
   Chunk(FullIdent, None, <<Choice(Some(Delta(Some(<<"r">>), None, None)), None)>>),
   Chunk(NoIdent, None,
         <<Choice(Some(Delta(None, None, Some(<<OpenDelta(0, Some(<<"[">>))>>))), None)>>),
   Chunk(NoIdent, None,
         <<Choice(Some(Delta(None, None, Some(<<FragmentDelta(0, Some(<<"]">>))>>))), None)>>),
   Chunk(NoIdent, Some([prompt_tokens |-> Some(7), completion_tokens |-> None]),
         <<Choice(Some(EmptyDelta), Some("eos"))>>)}

\* the locals of a call that has received nothing yet, with the chunks it was handed
InitialCall == [input |-> <<>>] @@ InitialState("chat")

\* variant: the text and reasoning ids and the flags live on the instance
CallLocalsOnInstance(all, c) ==
  [all[c] EXCEPT !.textId = all[1].textId, !.reasoningId = all[1].reasoningId,
                 !.hasStreamStarted = all[1].hasStreamStarted,
                 !.isFirstChunk = all[1].isFirstChunk]

\* 526-538: the locals the callbacks of call c close over
CallLocals(all, c) == all[c]

\* transform() of call c
ConcurrentChunk(c) ==
  /\ api = "chat-concurrent"
  /\ concurrent[c].pc = "streaming"
  /\ Len(concurrent[c].input) < MaxChunks
  /\ \E chunk \in ConcurrentChunks :
       LET st == CallLocals(concurrent, c)
           s1 == ChatTransform([st EXCEPT !.n = Len(st.input) + 1], chunk)
       IN  concurrent' = [concurrent EXCEPT ![c] = [s1 EXCEPT !.input = Append(@, chunk)]]
  /\ UNCHANGED <<streamVars, requests, result, prompt, messages, vendorReason, mapped,
                 requestVars>>

\* flush() of call c
ConcurrentEnd(c) ==
  /\ api = "chat-concurrent"
  /\ concurrent[c].pc = "streaming"
  /\ LET st == CallLocals(concurrent, c) IN
       concurrent' = [concurrent EXCEPT ![c] = ChatFlush([st EXCEPT !.n = 0])]
  /\ UNCHANGED <<streamVars, requests, result, prompt, messages, vendorReason, mapped,
                 requestVars>>

ConcurrentInit ==
  /\ api = "chat-concurrent"
  /\ input = <<>>
  /\ LET st == InitialState("chat") IN
       /\ pc = st.pc
       /\ failure = st.failure
       /\ events = st.events
       /\ origin = st.origin
       /\ toolCalls = st.toolCalls
       /\ finishReason = st.finishReason
       /\ usage = st.usage
       /\ isFirstChunk = st.isFirstChunk
       /\ hasStreamStarted = st.hasStreamStarted
       /\ textId = st.textId
       /\ reasoningId = st.reasoningId
       /\ idCounter = st.idCounter
  /\ concurrent = [c \in ConcurrentCalls |-> InitialCall]
  /\ requests = 2
  /\ result = None
  /\ prompt = <<>>
  /\ messages = None
  /\ vendorReason = None
  /\ mapped = None
  /\ config = None
  /\ options = None
  /\ posted = <<>>
  /\ warnings = <<>>

ConcurrentNext == \E c \in ConcurrentCalls : ConcurrentChunk(c) \/ ConcurrentEnd(c)

ConcurrentSpec == ConcurrentInit /\ [][ConcurrentNext]_vars

(***************************************************************************)
(* The start of a chat call: doGenerate 344-353 and doStream 497-511 build *)
(* the arguments with getArgs, which converts the prompt (326), and then   *)
(* post them.                                                              *)
(***************************************************************************)
\* the options of a call that sets nothing but its prompt
PlainOptions(turns) ==
  [prompt |-> turns, maxOutputTokens |-> None, temperature |-> None, topP |-> None,
   topK |-> None, frequencyPenalty |-> None, presencePenalty |-> None,
   providerOptions |-> None, stopSequences |-> None, responseFormat |-> None,
   seed |-> None, tools |-> None, toolChoice |-> None]

\* a chat model constructed without settings
PlainConfig ==
  [provider |-> "qwen.chat", modelId |-> "qwen-plus", settings |-> [user |-> None],
   supportsStructuredOutputs |-> None]

ChatCall ==
  /\ api = "chat-call"
  /\ pc = "calling"
  /\ LET call == getArgs(config, options) IN
       /\ messages' = Some(convertToQwenChatMessages(options.prompt))
       /\ IF call.ok
            THEN /\ requests' = requests + 1
                 /\ posted' = Append(posted, [url |-> [path |-> "/chat/completions",
                                                       modelId |-> config.modelId],
                                              body |-> call.value.args])
                 /\ warnings' = call.value.warnings
                 /\ pc' = "requested"
                 /\ UNCHANGED failure
            ELSE /\ pc' = "rejected"
                 /\ failure' = call.functionality
                 /\ UNCHANGED <<requests, posted, warnings>>
  /\ UNCHANGED <<api, events, origin, input, toolCalls, finishReason, usage,
                 isFirstChunk, hasStreamStarted, textId, reasoningId, idCounter>>
  /\ UNCHANGED <<concurrent, result, prompt, vendorReason, mapped, config, options>>

ConverterInit ==
  /\ api = "chat-call"
  /\ input = <<>>
  /\ LET st == InitialState("chat") IN
       /\ pc = "calling"
       /\ failure = st.failure
       /\ events = st.events
       /\ origin = st.origin
       /\ toolCalls = st.toolCalls
       /\ finishReason = st.finishReason
       /\ usage = st.usage
       /\ isFirstChunk = st.isFirstChunk
       /\ hasStreamStarted = st.hasStreamStarted
       /\ textId = st.textId
       /\ reasoningId = st.reasoningId
       /\ idCounter = st.idCounter
  /\ concurrent = <<>>
  /\ requests = 0
  /\ result = None
  /\ prompt \in Prompts
  /\ messages = None
  /\ vendorReason = None
  /\ mapped = None
  /\ config = PlainConfig
  /\ options = PlainOptions(prompt)
  /\ posted = <<>>
  /\ warnings = <<>>

ConverterNext == ChatCall

ConverterSpec == ConverterInit /\ [][ConverterNext]_vars

(***************************************************************************)
(* The finish-reason mappers as functions of their argument: the chat      *)
(* model calls the mapper of map-qwen-finish-reason.ts 9-35, the           *)
(* completion model the mapper of part_003.                                *)
(***************************************************************************)
VendorReasons ==
  {"stop", "length", "tool_calls", "content_filter",
   "", "STOP", "Stop", "stop ", " stop", "LENGTH", "length ", "max_tokens",
   "tool-calls", "tool_call", "toolcalls", "function_call",
   "content-filter", "contentfilter", "eos", "end_turn", "error", "other",
   "unknown", "null", "undefined", "cancelled", "timeout",
   "insufficient_system_resource", "0", "finish"}

\* string | null | undefined
FinishReasonInputs == {None} \cup {Some(r) : r \in VendorReasons}

MapFinishReason ==
  /\ pc = "mapping"
  /\ mapped' = Some(IF api = "chat" THEN mapQwenFinishReason(vendorReason)
                    ELSE mapQwenFinishReasonV2(vendorReason))
  /\ pc' = "mapped"
  /\ UNCHANGED <<api, failure, events, origin, input, toolCalls, finishReason, usage,
                 isFirstChunk, hasStreamStarted, textId, reasoningId, idCounter>>
  /\ UNCHANGED <<concurrent, requests, result, prompt, messages, vendorReason, requestVars>>

FinishReasonInit ==
  /\ api \in {"chat", "completion"}
  /\ input = <<>>
  /\ LET st == InitialState("chat") IN
       /\ pc = "mapping"
       /\ failure = st.failure
       /\ events = st.events
       /\ origin = st.origin
       /\ toolCalls = st.toolCalls
       /\ finishReason = st.finishReason
       /\ usage = st.usage
       /\ isFirstChunk = st.isFirstChunk
       /\ hasStreamStarted = st.hasStreamStarted
       /\ textId = st.textId
       /\ reasoningId = st.reasoningId
       /\ idCounter = st.idCounter
  /\ concurrent = <<>>
  /\ requests = 0
  /\ result = None
  /\ prompt = <<>>
  /\ messages = None
  /\ vendorReason \in FinishReasonInputs
  /\ mapped = None
  /\ config = None
  /\ options = None
  /\ posted = <<>>
  /\ warnings = <<>>

FinishReasonNext == MapFinishReason

FinishReasonSpec == FinishReasonInit /\ [][FinishReasonNext]_vars

(***************************************************************************)
(* QwenEmbeddingModel.doEmbed (qwen-embedding-model.ts 84-143).  The call  *)
(* is one step: the guard on the number of values, then one POST and the   *)
(* mapping of its outcome.                                                 *)
(***************************************************************************)
DefaultMaxEmbeddingsPerCall == 2048

\* get maxEmbeddingsPerCall(): this.config.maxEmbeddingsPerCall ?? 2048
maxEmbeddingsPerCall(cfg) == OrElse(cfg.maxEmbeddingsPerCall, DefaultMaxEmbeddingsPerCall)

\* throw new TooManyEmbeddingValuesForCallError({ provider, modelId, maxEmbeddingsPerCall, values })
TooManyEmbeddingValuesForCallError(cfg, values) ==
  [error |-> "TooManyEmbeddingValuesForCallError", provider |-> cfg.provider,
   modelId |-> cfg.modelId, maxEmbeddingsPerCall |-> maxEmbeddingsPerCall(cfg),
   values |-> values]

\* what postJsonToApi rejects with when the response is not a success
APICallError == [error |-> "APICallError"]

\* variant: the guard admits one value more than the maximum
TooManyValuesOffByOne(cfg, values) == Len(values) > maxEmbeddingsPerCall(cfg) + 1

\* 93-94: values.length > maxEmbeddings
TooManyValues(cfg, values) == Len(values) > maxEmbeddingsPerCall(cfg)

\* 108-121: the url arguments and the body of the request
EmbedRequest(cfg, opts) ==
  [url |-> [path |-> "/embeddings", modelId |-> cfg.modelId],
   body |-> specificProviderOptions(cfg, opts.providerOptions)
              @@ [model |-> cfg.modelId, input |-> opts.values, encoding_format |-> "float",
                  dimensions |-> cfg.settings.dimensions, user |-> cfg.settings.user]]

\* 135-142
EmbedResult(response) ==
  [embeddings |-> [i \in 1..Len(response.data) |-> response.data[i].embedding],
   usage |-> IF IsNull(response.usage) THEN None
             ELSE Some([tokens |-> Get(response.usage).prompt_tokens]),
   warnings |-> <<>>]

MaxValues == 3

EmbedTexts == {"sunny day", "rainy day"}

\* the values of a call: every short list, and lists around the default maximum
EmbedValues ==
  UNION {[1..n -> EmbedTexts] : n \in 0..MaxValues}
    \cup {[i \in 1..n |-> "sunny day"] :
            n \in {DefaultMaxEmbeddingsPerCall, DefaultMaxEmbeddingsPerCall + 1}}

EmbedProviderOptions ==
  {None, Some([qwen |-> [dimensions |-> 64]]), Some([other |-> [dimensions |-> 64]])}

EmbedOptions == [values : EmbedValues, providerOptions : EmbedProviderOptions]

EmbedConfigs ==
  [provider : {"qwen.embedding"}, modelId : {"text-embedding-v3"},
   maxEmbeddingsPerCall : {None} \cup {Some(n) : n \in 0..MaxValues},
   settings : {[dimensions |-> 512, user |-> "user-1"]}]

\* qwenTextEmbeddingResponseSchema (38-41): one embedding per value; or a failed response
EmbedResponses(values) ==
  {[ok |-> FALSE]}
    \cup {[ok |-> TRUE, data |-> [i \in 1..Len(values) |-> [embedding |-> <<i>>]], usage |-> u] :
            u \in {None, Some([prompt_tokens |-> Len(values)])}}

DoEmbed ==
  /\ api = "embedding"
  /\ pc = "calling"
  /\ IF TooManyValues(config, options.values)
       THEN /\ pc' = "rejected"
            /\ failure' = TooManyEmbeddingValuesForCallError(config, options.values)
            /\ UNCHANGED <<requests, posted, result>>
       ELSE /\ requests' = requests + 1
            /\ posted' = Append(posted, EmbedRequest(config, options))
            /\ \E response \in EmbedResponses(options.values) :
                 IF response.ok
                   THEN /\ pc' = "embedded"
                        /\ result' = Some(EmbedResult(response))
                        /\ UNCHANGED failure
                   ELSE /\ pc' = "rejected"
                        /\ failure' = APICallError
                        /\ UNCHANGED result
  /\ UNCHANGED <<api, events, origin, input, toolCalls, finishReason, usage,
                 isFirstChunk, hasStreamStarted, textId, reasoningId, idCounter>>
  /\ UNCHANGED <<concurrent, prompt, messages, vendorReason, mapped, config, options, warnings>>

\* the variables of the stream transcoders and of the chat call, at rest
AtRest ==
  /\ input = <<>>
  /\ LET st == InitialState("chat") IN
       /\ events = st.events
       /\ origin = st.origin
       /\ toolCalls = st.toolCalls
       /\ finishReason = st.finishReason
       /\ usage = st.usage
       /\ isFirstChunk = st.isFirstChunk
       /\ hasStreamStarted = st.hasStreamStarted
       /\ textId = st.textId
       /\ reasoningId = st.reasoningId
       /\ idCounter = st.idCounter
  /\ concurrent = <<>>
  /\ prompt = <<>>
  /\ messages = None
  /\ vendorReason = None
  /\ mapped = None

\* a call about to start: nothing requested, nothing resolved, nothing thrown
Calling ==
  /\ pc = "calling"
  /\ failure = None
  /\ requests = 0
  /\ result = None
  /\ posted = <<>>
  /\ warnings = <<>>

EmbedInit ==
  /\ api = "embedding"
  /\ AtRest
  /\ Calling
  /\ config \in EmbedConfigs
  /\ options \in EmbedOptions

EmbedNext == DoEmbed

EmbedSpec == EmbedInit /\ [][EmbedNext]_vars

(***************************************************************************)
(* QwenRerankingModel.doRerank (qwen-reranking-model.ts 115-293).  The     *)
(* call is one step: the request is built for the wire format of the       *)
(* model id, posted once, and the response mapped.  Relevance scores are   *)
(* given in hundredths.                                                    *)
(***************************************************************************)
\* variant: only the id qwen3-rerank itself uses the flat format
usesOpenAICompatibleAPIExact(modelId) == modelId = "qwen3-rerank"

\* 78-80
usesOpenAICompatibleAPI(modelId) == StartsWith(modelId, "qwen3-rerank")

\* 122-125
documentTexts(documents) ==
  IF documents.type = "text" THEN documents.values
  ELSE [i \in 1..Len(documents.values) |-> JSONstringify(documents.values[i])]

\* 179-195: body and url of the OpenAI-compatible format
OpenAICompatibleRequest(cfg, opts) ==
  LET body == specificProviderOptions(cfg, opts.providerOptions)
                @@ [model |-> cfg.modelId, documents |-> documentTexts(opts.documents),
                    query |-> opts.query]
      withTopN == IF IsNull(opts.topN) THEN body ELSE [top_n |-> Get(opts.topN)] @@ body
      withInstruct == IF IsNull(cfg.settings.instruct) THEN withTopN
                      ELSE [instruct |-> Get(cfg.settings.instruct)] @@ withTopN
  IN  [url |-> cfg.baseURL \o "/compatible-api/v1/reranks", body |-> withInstruct]

\* 246-266: body and url of the DashScope native format
DashScopeRequest(cfg, opts) ==
  LET top == IF IsNull(opts.topN) THEN <<>> ELSE [top_n |-> Get(opts.topN)]
      ret == IF IsNull(cfg.settings.returnDocuments) THEN <<>>
             ELSE [return_documents |-> Get(cfg.settings.returnDocuments)]
      parameters == ret @@ top
  IN  [url |-> cfg.baseURL \o "/api/v1/services/rerank/text-rerank/text-rerank",
       body |-> specificProviderOptions(cfg, opts.providerOptions)
                  @@ [model |-> cfg.modelId,
                      input |-> [query |-> opts.query,
                                 documents |-> documentTexts(opts.documents)],
                      parameters |-> parameters]]

\* variant: the ranking is returned best score first
RankingSorted(results) ==
  LET better(a, b) == a.relevance_score > b.relevance_score
      sorted == SortSeq(results, better)
  IN  [i \in 1..Len(sorted) |->
         [index |-> sorted[i].index, relevanceScore |-> sorted[i].relevance_score]]

\* 212-215, 283-286: results.map(result => ({ index, relevanceScore }))
Ranking(results) ==
  [i \in 1..Len(results) |->
     [index |-> results[i].index, relevanceScore |-> results[i].relevance_score]]

\* 211-221
OpenAICompatibleResult(response) ==
  [ranking |-> Ranking(response.results), response |-> [id |-> response.id],
   warnings |-> <<>>]

\* 282-292
DashScopeResult(response) ==
  [ranking |-> Ranking(response.output.results), response |-> [id |-> response.request_id],
   warnings |-> <<>>]

MaxResults == 2

RerankModelIds ==
  {"qwen3-rerank", "qwen3-reranker-0.6b", "gte-rerank-v2", "gte-rerank", "qwen3",
   "my-qwen3-rerank"}

RerankSettings ==
  [instruct : {None, Some("Retrieve semantically similar text.")},
   returnDocuments : {None, Some(TRUE)}]

RerankConfigs ==
  [provider : {"qwen.reranking"}, baseURL : {"https://my.api.com"},
   modelId : RerankModelIds, settings : RerankSettings]

RerankDocuments ==
  {[type |-> "text", values |-> <<"sunny day", "rainy day">>],
   [type |-> "object", values |-> <<JsonInput>>]}

RerankOptions ==
  [documents : RerankDocuments, query : {"talk about rain"}, topN : {None, Some(1)},
   providerOptions : {None, Some([qwen |-> [custom_field |-> "x"]])}]

\* the entries of a vendor result list: any index, any score, in any order
VendorResults ==
  UNION {[1..n -> [index : 0..1, relevance_score : {10, 90}]] : n \in 0..MaxResults}

\* the responses that satisfy the schema of the format (29-49, 54-72), or a failure
RerankResponses(modelId) ==
  {[ok |-> FALSE]}
    \cup (IF usesOpenAICompatibleAPI(modelId)
            THEN {[ok |-> TRUE, results |-> r, id |-> "resp-1"] : r \in VendorResults}
            ELSE {[ok |-> TRUE, output |-> [results |-> r], request_id |-> "req-1"] :
                    r \in VendorResults})

DoRerank ==
  /\ api = "rerank"
  /\ pc = "calling"
  /\ LET isOpenAICompatible == usesOpenAICompatibleAPI(config.modelId) IN
       /\ posted' = Append(posted, IF isOpenAICompatible
                                     THEN OpenAICompatibleRequest(config, options)
                                     ELSE DashScopeRequest(config, options))
       /\ requests' = requests + 1
       /\ \E response \in RerankResponses(config.modelId) :
            IF response.ok
              THEN /\ pc' = "reranked"
                   /\ result' = Some(IF isOpenAICompatible
                                       THEN OpenAICompatibleResult(response)
                                       ELSE DashScopeResult(response))
                   /\ input' = <<response>>
                   /\ UNCHANGED failure
              ELSE /\ pc' = "rejected"
                   /\ failure' = APICallError
                   /\ UNCHANGED <<result, input>>
  /\ UNCHANGED <<api, events, origin, toolCalls, finishReason, usage,
                 isFirstChunk, hasStreamStarted, textId, reasoningId, idCounter>>
  /\ UNCHANGED <<concurrent, prompt, messages, vendorReason, mapped, config, options, warnings>>

RerankInit ==
  /\ api = "rerank"
  /\ AtRest
  /\ Calling
  /\ config \in RerankConfigs
  /\ options \in RerankOptions

RerankNext == DoRerank

RerankSpec == RerankInit /\ [][RerankNext]_vars

(***************************************************************************)
(* The start of a completion call: doGenerate (192-210) and doStream       *)
(* (257-280) build the arguments with getArgs and post them to             *)
(* /completions, doStream with stream: true.                               *)
(***************************************************************************)
CompletionConfig ==
  [provider |-> "qwen.completion", modelId |-> "qwen-turbo",
   settings |-> [echo |-> None, logitBias |-> None, suffix |-> None, user |-> None]]

CallOptions ==
  {[PlainOptions(p) EXCEPT !.topK = k, !.responseFormat = f, !.tools = t,
                           !.toolChoice = c, !.providerOptions = o] :
     p \in CallPrompts, k \in TopKs, f \in ResponseFormats, t \in ToolLists,
     c \in ToolChoices, o \in CallProviderOptions}

CompletionCall ==
  /\ api \in {"completion-generate", "completion-stream"}
  /\ pc = "calling"
  /\ LET call == getCompletionArgs(config, options) IN
       IF call.ok
         THEN /\ requests' = requests + 1
              /\ posted' = Append(posted,
                                  [url |-> [path |-> "/completions", modelId |-> config.modelId],
                                   body |-> IF api = "completion-stream"
                                              THEN [stream |-> TRUE] @@ call.value.args
                                              ELSE call.value.args])
              /\ warnings' = call.value.warnings
              /\ pc' = "requested"
              /\ UNCHANGED failure
         ELSE /\ pc' = "rejected"
              /\ failure' = [error |-> call.error, functionality |-> call.functionality]
              /\ UNCHANGED <<requests, posted, warnings>>
  /\ UNCHANGED <<api, events, origin, input, toolCalls, finishReason, usage,
                 isFirstChunk, hasStreamStarted, textId, reasoningId, idCounter>>
  /\ UNCHANGED <<concurrent, result, prompt, messages, vendorReason, mapped, config, options>>

CompletionCallInit ==
  /\ api \in {"completion-generate", "completion-stream"}
  /\ AtRest
  /\ Calling
  /\ config = CompletionConfig
  /\ options \in CallOptions

CompletionCallNext == CompletionCall

CompletionCallSpec == CompletionCallInit /\ [][CompletionCallNext]_vars

(***************************************************************************)
(* A chat call with every option: the same step as above, ChatCall, from   *)
(* all combinations of response format, top-k, tools and tool choice, on   *)
(* models with and without structured outputs.                             *)
(***************************************************************************)
ChatConfigs ==
  {[PlainConfig EXCEPT !.supportsStructuredOutputs = s] : s \in {None, Some(TRUE), Some(FALSE)}}

ArgsInit ==
  /\ api = "chat-call"
  /\ input = <<>>
  /\ LET st == InitialState("chat") IN
       /\ pc = "calling"
       /\ failure = st.failure
       /\ events = st.events
       /\ origin = st.origin
       /\ toolCalls = st.toolCalls
       /\ finishReason = st.finishReason
       /\ usage = st.usage
       /\ isFirstChunk = st.isFirstChunk
       /\ hasStreamStarted = st.hasStreamStarted
       /\ textId = st.textId
       /\ reasoningId = st.reasoningId
       /\ idCounter = st.idCounter
  /\ concurrent = <<>>
  /\ requests = 0
  /\ result = None
  /\ options \in CallOptions
  /\ prompt = options.prompt
  /\ messages = None
  /\ vendorReason = None
  /\ mapped = None
  /\ config \in ChatConfigs
  /\ posted = <<>>
  /\ warnings = <<>>

ArgsNext == ChatCall

ArgsSpec == ArgsInit /\ [][ArgsNext]_vars

(***************************************************************************)
(* A chat call whose vendor-option bags use the names of the structural    *)
(* fields of a vendor message: the same step, ChatCall, from prompts whose *)
(* turns and parts carry such bags.                                        *)
(***************************************************************************)
StructuralOptions ==
  [role |-> "developer", content |-> Str("injected"), tool_call_id |-> "call_forged",
   tool_calls |-> None]

OptionBags == {None, Some(TurnOptions), Some(StructuralOptions)}

OverrideTurns ==
  {[role |-> "system", content |-> Str("Be brief"), providerOptions |-> o] :
     o \in OptionBags}
  \cup {[role |-> "user", content |-> Arr(<<TextPart("Hi", p)>>), providerOptions |-> o] :
          p \in OptionBags, o \in OptionBags}
  \cup {[role |-> "user", content |-> Arr(<<TextPart("Hi", None), PngUrl>>),
         providerOptions |-> o] : o \in OptionBags}
  \cup {[role |-> "assistant",
         content |-> Arr(<<TextPart("Let me see", None), ToolCallPart("call_1", JsonInput, p)>>),
         providerOptions |-> o] : p \in {None, Some(StructuralOptions)}, o \in OptionBags}
  \cup {[role |-> "tool", content |-> Arr(<<ToolResultPart("call_1", TextOutput, p)>>),
         providerOptions |-> None] : p \in OptionBags}
  \cup {[role |-> "tool",
         content |-> Arr(<<ToolResultPart("call_1", TextOutput, None),
                           ToolResultPart("call_2", TextOutput, Some(StructuralOptions))>>),
         providerOptions |-> Some(StructuralOptions)]}

OverridePrompts == UNION {[1..n -> OverrideTurns] : n \in 1..MaxTurns}

OverrideInit ==
  /\ api = "chat-call"
  /\ input = <<>>
  /\ LET st == InitialState("chat") IN
       /\ pc = "calling"
       /\ failure = st.failure
       /\ events = st.events
       /\ origin = st.origin
       /\ toolCalls = st.toolCalls
       /\ finishReason = st.finishReason
       /\ usage = st.usage
       /\ isFirstChunk = st.isFirstChunk
       /\ hasStreamStarted = st.hasStreamStarted
       /\ textId = st.textId
       /\ reasoningId = st.reasoningId
       /\ idCounter = st.idCounter
  /\ concurrent = <<>>
  /\ requests = 0
  /\ result = None
  /\ prompt \in OverridePrompts
  /\ messages = None
  /\ vendorReason = None
  /\ mapped = None
  /\ config = PlainConfig
  /\ options = PlainOptions(prompt)
  /\ posted = <<>>
  /\ warnings = <<>>

OverrideNext == ChatCall

OverrideSpec == OverrideInit /\ [][OverrideNext]_vars

(***************************************************************************)
(* Vocabulary of the properties.                                           *)
(***************************************************************************)
Min(S) == CHOOSE x \in S : \A y \in S : x <= y

Max(S) == CHOOSE x \in S : \A y \in S : x >= y

Terminated == pc \in {"closed", "errored"}

\* chunks that parsed and are not vendor error objects
GoodChunks == {k \in 1..Len(input) : input[k].success /\ input[k].object # Some("error")}

ParsedChunks == {k \in 1..Len(input) : input[k].success}

\* positions of the events emitted for tool-call index i
IndexPositions(i) == {k \in 1..Len(events) : origin[k].index = i}

\* the tool-call deltas chunk k carries (none unless it has a first choice with a delta)
DeltasOf(k) ==
  IF k \in GoodChunks /\ Len(input[k].choices) > 0
     /\ ~IsNull(input[k].choices[1].delta)
     /\ ~IsNull(Get(input[k].choices[1].delta).tool_calls)
    THEN Get(Get(input[k].choices[1].delta).tool_calls)
    ELSE <<>>

\* a delta that cannot open a call
Malformed(d) ==
  d.type # Some("function") \/ IsNull(d.id) \/ IsNull(d.function.name)

FirstFailure(d) ==
  IF d.type # Some("function") THEN "Expected 'function' type."
  ELSE IF IsNull(d.id) THEN "Expected 'id' to be a string."
  ELSE "Expected 'function.name' to be a string."

(***************************************************************************)
(* C1.  Original statement: for ANY chat stream, also one that a fatal     *)
(* decode error aborted, the number of text-start events equals the        *)
(* number of text-end events and is 0 or 1; the same for reasoning.        *)
(***************************************************************************)
C1_AnyStreamBalanced ==
  Terminated =>
    /\ CountType(events, "text-start") = CountType(events, "text-end")
    /\ CountType(events, "text-start") <= 1
    /\ CountType(events, "reasoning-start") = CountType(events, "reasoning-end")
    /\ CountType(events, "reasoning-start") <= 1

(***************************************************************************)
(* C1, amended.  At every moment at most one text-start and at most one    *)
(* reasoning-start have been emitted; when the stream has run to its end   *)
(* (flush), the number of text-end events equals the number of text-start  *)
(* events and likewise for reasoning; before that, and in a stream aborted *)
(* by an invalid-response error, no -end event has been emitted.           *)
(***************************************************************************)
C1_SegmentBoundaries ==
  /\ CountType(events, "text-start") <= 1
  /\ CountType(events, "reasoning-start") <= 1
  /\ pc = "closed" =>
       /\ CountType(events, "text-end") = CountType(events, "text-start")
       /\ CountType(events, "reasoning-end") = CountType(events, "reasoning-start")
  /\ pc # "closed" =>
       /\ CountType(events, "text-end") = 0
       /\ CountType(events, "reasoning-end") = 0

C1_Witness ==
  /\ pc = "closed"
  /\ CountType(events, "text-start") = 1
  /\ CountType(events, "text-delta") >= 2
  /\ CountType(events, "reasoning-start") = 1
  /\ CountType(events, "reasoning-end") = 1

(***************************************************************************)
(* C2.  When the input ends, flush emits text-end if text was started,     *)
(* then reasoning-end if reasoning was started, then one finish: finish is *)
(* the last event, it is the only finish, and nothing but these events is  *)
(* emitted at flush; no finish exists before the input ends.               *)
(***************************************************************************)
FlushPositions == {k \in 1..Len(events) : origin[k].chunk = 0}

ExpectedFlushTypes ==
  (IF CountType(events, "text-start") > 0 THEN <<"text-end">> ELSE <<>>)
  \o (IF CountType(events, "reasoning-start") > 0 THEN <<"reasoning-end">> ELSE <<>>)
  \o <<"finish">>

C2_FlushEndsThenFinish ==
  /\ pc = "closed" =>
       LET m == Len(ExpectedFlushTypes)
           first == Len(events) - m
       IN  /\ first >= 0
           /\ FlushPositions = (first + 1)..Len(events)
           /\ \A j \in 1..m : events[first + j].type = ExpectedFlushTypes[j]
           /\ Last(events).type = "finish"
           /\ CountType(events, "finish") = 1
           /\ \A k \in 1..Len(events) :
                /\ events[k].type = "text-end" => events[k].id = Get(textId)
                /\ events[k].type = "reasoning-end" => events[k].id = Get(reasoningId)
  /\ pc # "closed" => CountType(events, "finish") = 0 /\ FlushPositions = {}

C2_Witness ==
  /\ pc = "closed"
  /\ Len(events) >= 3
  /\ events[Len(events) - 2].type = "text-end"
  /\ events[Len(events) - 1].type = "reasoning-end"
  /\ Last(events).type = "finish"

(***************************************************************************)
(* C3.  Per tool-call index at most one tool-call event is emitted, and a  *)
(* finished accumulator is frozen: the tool-call event is the last event   *)
(* ever emitted for its index and its input is the accumulator's           *)
(* arguments, whatever fragments (empty ones included) arrive afterwards.  *)
(***************************************************************************)
C3_OneToolCallPerIndex ==
  \A i \in Indices :
    LET calls == {k \in IndexPositions(i) : events[k].type = "tool-call"} IN
      /\ Cardinality(calls) <= 1
      /\ (i \in DOMAIN toolCalls /\ toolCalls[i].hasFinished) =>
           /\ Cardinality(calls) = 1
           /\ Max(IndexPositions(i)) \in calls
           /\ events[Max(IndexPositions(i))].input = toolCalls[i].arguments
      /\ calls # {} => (i \in DOMAIN toolCalls /\ toolCalls[i].hasFinished)

\* a finished index received a later chunk with an empty and one with a non-empty fragment
C3_Witness ==
  \E i \in DOMAIN toolCalls :
    /\ toolCalls[i].hasFinished
    /\ LET done == origin[Max(IndexPositions(i))].chunk IN
         /\ \E k \in (done + 1)..Len(input) : \E j \in 1..Len(DeltasOf(k)) :
              DeltasOf(k)[j].index = i /\ DeltasOf(k)[j].function.arguments = Some(<<>>)
         /\ \E k \in (done + 1)..Len(input) : \E j \in 1..Len(DeltasOf(k)) :
              DeltasOf(k)[j].index = i /\ DeltasOf(k)[j].function.arguments = Some(<<"1">>)

(***************************************************************************)
(* C4.  For each tool-call index the events are tool-input-start, then     *)
(* tool-input-delta events, then tool-input-end immediately followed by    *)
(* tool-call.  The accumulator is finished exactly when its arguments      *)
(* parse as JSON, in every state, so the pair is emitted for the chunk     *)
(* whose fragment first completes the arguments: tool-input-end carries    *)
(* the chunk number of the event before it for that index (the start of a  *)
(* call delivered whole, or the delta of the completing fragment).         *)
(***************************************************************************)
C4_ToolEventOrder ==
  /\ \A i \in Indices : (IndexPositions(i) # {}) = (i \in DOMAIN toolCalls)
  /\ \A i \in DOMAIN toolCalls :
       LET pos == IndexPositions(i)
           ofType(t) == {k \in pos : events[k].type = t}
           starts == ofType("tool-input-start")
           deltas == ofType("tool-input-delta")
           ends == ofType("tool-input-end")
           calls == ofType("tool-call")
       IN  /\ pos = starts \cup deltas \cup ends \cup calls
           /\ starts = {Min(pos)}
           /\ toolCalls[i].hasFinished = isParsableJson(toolCalls[i].arguments)
           /\ IF toolCalls[i].hasFinished
                THEN /\ Cardinality(ends) = 1
                     /\ calls = {Max(pos)}
                     /\ ends = {Max(pos) - 1}
                     /\ \A d \in deltas : d < Max(pos) - 1
                     /\ origin[Max(pos) - 1].chunk
                          = origin[Max({k \in pos : k < Max(pos) - 1})].chunk
                ELSE ends = {} /\ calls = {}

\* one call completed by a later fragment, another delivered whole in one chunk
C4_Witness ==
  \E i, j \in DOMAIN toolCalls :
    /\ toolCalls[i].hasFinished /\ toolCalls[j].hasFinished
    /\ origin[Min(IndexPositions(i))].chunk < origin[Max(IndexPositions(i))].chunk
    /\ Cardinality(IndexPositions(j)) = 4
    /\ origin[Min(IndexPositions(j))].chunk = origin[Max(IndexPositions(j))].chunk

(***************************************************************************)
(* C5.  Every accumulator is marked finished by the time the stream        *)
(* closes.                                                                 *)
(***************************************************************************)
C5_AllFinishedAtClose ==
  pc = "closed" => \A i \in DOMAIN toolCalls : toolCalls[i].hasFinished

(***************************************************************************)
(* C6.  Original statement: stream-start is emitted exactly once, while    *)
(* processing the first successfully parsed chunk, and it is the first     *)
(* event of the stream.                                                    *)
(***************************************************************************)
C6_StartOnFirstParsedChunk ==
  ParsedChunks # {} =>
    /\ CountType(events, "stream-start") = 1
    /\ events[1].type = "stream-start"
    /\ origin[1].chunk = Min(ParsedChunks)

(***************************************************************************)
(* C6, amended.  stream-start is emitted at most once: while processing    *)
(* the first successfully parsed chunk that is not a vendor error object,  *)
(* as the first event of that chunk, and never when no such chunk arrives. *)
(* The only events that can precede it are the error events of unparsable  *)
(* chunks and of vendor error objects.                                     *)
(***************************************************************************)
C6_StreamStartOnce ==
  LET starts == Positions(events, "stream-start") IN
    /\ hasStreamStarted = (GoodChunks # {})
    /\ Cardinality(starts) = (IF GoodChunks # {} THEN 1 ELSE 0)
    /\ \A p \in starts :
         /\ origin[p].chunk = Min(GoodChunks)
         /\ \A q \in 1..(p - 1) :
              events[q].type = "error" /\ origin[q].chunk < origin[p].chunk

\* an unparsable chunk and a vendor error precede the chunk that starts the stream
C6_Witness ==
  /\ Len(events) >= 4
  /\ events[1].type = "error" /\ events[1].error = "parse-failure"
  /\ events[2].type = "error" /\ events[2].error = "vendor-message"
  /\ events[3].type = "stream-start"
  /\ pc = "closed"

(***************************************************************************)
(* C7.  Original statement: response-metadata is emitted exactly once, on  *)
(* the first chunk that carries identifying fields (id, model or created). *)
(***************************************************************************)
CarriesIdent(k) ==
  k \in GoodChunks
  /\ (~IsNull(input[k].id) \/ ~IsNull(input[k].model) \/ ~IsNull(input[k].created))

IdentChunks == {k \in 1..Len(input) : CarriesIdent(k)}

C7_MetadataOnFirstIdentChunk ==
  IdentChunks # {} =>
    /\ CountType(events, "response-metadata") = 1
    /\ \A p \in Positions(events, "response-metadata") :
         origin[p].chunk = Min(IdentChunks)

(***************************************************************************)
(* C7, amended.  response-metadata is emitted at most once: while          *)
(* processing the first successfully parsed chunk that is not a vendor     *)
(* error object, whether or not that chunk carries identifying fields,     *)
(* right after stream-start; it is never emitted again, however many later *)
(* chunks carry those fields.                                              *)
(***************************************************************************)
C7_MetadataOnce ==
  LET metas == Positions(events, "response-metadata") IN
    /\ isFirstChunk = (GoodChunks = {})
    /\ Cardinality(metas) = (IF GoodChunks # {} THEN 1 ELSE 0)
    /\ \A p \in metas :
         /\ origin[p].chunk = Min(GoodChunks)
         /\ \A q \in 1..(p - 1) : origin[q].chunk < origin[p].chunk \/ events[q].type = "stream-start"

\* the first chunk has no identifying field, two later chunks carry them
C7_Witness ==
  /\ Len(input) = 3
  /\ GoodChunks = {1, 2, 3}
  /\ IdentChunks = {2, 3}
  /\ CountType(events, "response-metadata") = 1
  /\ \A p \in Positions(events, "response-metadata") : origin[p].chunk = 1

(***************************************************************************)
(* C8.  In the chat and in the completion transcoder a chunk that fails to *)
(* parse adds one error event carrying the parse failure, leaves every     *)
(* local of the call as it was and the stream open; when the input ends    *)
(* the last event is finish, and it carries the initial (unrecognized)     *)
(* finish reason when no chunk reported one.                               *)
(***************************************************************************)
ReportsFinishReason(k) ==
  k \in GoodChunks /\ Len(input[k].choices) > 0
  /\ ~IsNull(input[k].choices[1].finish_reason)

UnrecognizedFinishReason ==
  IF api = "chat" THEN ChatInitialFinishReason ELSE CompletionInitialFinishReason

C8_ParseFailureStep ==
  (input' # input /\ ~Last(input').success) =>
    /\ events' = Append(events, [type |-> "error", error |-> Last(input').error])
    /\ pc' = "streaming"
    /\ UNCHANGED <<failure, toolCalls, finishReason, usage, isFirstChunk,
                   hasStreamStarted, textId, reasoningId, idCounter>>

C8_FinishAtEnd ==
  pc = "closed" =>
    /\ Last(events).type = "finish"
    /\ CountType(events, "error")
         >= Cardinality({k \in 1..Len(input) : ~input[k].success})
    /\ (\A k \in 1..Len(input) : ~ReportsFinishReason(k)) =>
         Last(events).finishReason = UnrecognizedFinishReason

C8_ParseFailureContinues == [][C8_ParseFailureStep]_vars /\ []C8_FinishAtEnd

\* completion stream: a bad chunk between two text chunks, no finish reason reported
C8_Witness ==
  /\ api = "completion"
  /\ pc = "closed"
  /\ Len(input) = 3
  /\ ~input[2].success
  /\ \A k \in 1..3 : ~ReportsFinishReason(k)
  /\ \E p, q \in Positions(events, "text-delta") : origin[p].chunk = 1 /\ origin[q].chunk = 3
  /\ Last(events).finishReason = "unknown"

(***************************************************************************)
(* C9.  A first-sighting delta whose type is not function or whose id or   *)
(* function name is missing raises the invalid-response error: the stream  *)
(* is errored exactly when some chunk carried such a delta for an index    *)
(* without accumulator, the error names the first missing item, and that   *)
(* index gets neither an accumulator nor a tool-input-start.               *)
(***************************************************************************)
\* the malformed deltas of the input whose index has no accumulator
Offending ==
  UNION {{<<k, j>> : j \in {j \in 1..Len(DeltasOf(k)) :
                                 /\ DeltasOf(k)[j].index \notin DOMAIN toolCalls
                                 /\ Malformed(DeltasOf(k)[j])}} :
           k \in 1..Len(input)}

C9_MalformedFirstDeltaRaises ==
  /\ (pc = "errored") = (Offending # {})
  /\ pc = "errored" =>
       /\ \A o \in Offending : o[1] = Len(input)
       /\ \E o \in Offending :
            /\ failure = FirstFailure(DeltasOf(o[1])[o[2]])
            /\ IndexPositions(DeltasOf(o[1])[o[2]].index) = {}
  /\ pc # "errored" => failure = ""
  /\ \A k \in Positions(events, "tool-input-start") : origin[k].index \in DOMAIN toolCalls

\* index 0 was opened, then a delta without type for an unseen index aborted the stream
C9_Witness ==
  /\ pc = "errored"
  /\ failure = "Expected 'function' type."
  /\ DOMAIN toolCalls = {0}
  /\ \E o \in Offending : DeltasOf(o[1])[o[2]].index = MaxIndex

(***************************************************************************)
(* C10.  A chat chunk that is a vendor error object adds one error event   *)
(* carrying the vendor message and changes no local of the call: started   *)
(* flags, finish reason, usage, text and reasoning ids, accumulators.      *)
(***************************************************************************)
C10_VendorErrorStep ==
  (input' # input /\ Last(input').success /\ Last(input').object = Some("error")) =>
    /\ events' = Append(events, [type |-> "error", error |-> Last(input').message])
    /\ pc' = "streaming"
    /\ UNCHANGED <<failure, toolCalls, finishReason, usage, isFirstChunk,
                   hasStreamStarted, textId, reasoningId, idCounter>>

C10_VendorErrorSkipped == [][C10_VendorErrorStep]_vars

\* a vendor error between two text chunks of one sub-stream
C10_Witness ==
  /\ Len(input) = 3
  /\ input[2] = ErrorChunk
  /\ ~IsNull(textId)
  /\ \E p, q \in Positions(events, "text-delta") :
       /\ origin[p].chunk = 1 /\ origin[q].chunk = 3
       /\ events[p].id = events[q].id
  /\ \E e \in Positions(events, "error") : origin[e].chunk = 2

(***************************************************************************)
(* C11.  The finish event of a chat stream carries the finish reason       *)
(* mapped from the last chunk that reported a non-null finish reason and   *)
(* the usage of the last chunk that reported usage.  A chunk reporting     *)
(* neither leaves both as they were; when no chunk reported one the reason *)
(* is "other" with raw undefined and every usage field is undefined.       *)
(***************************************************************************)
ReasonChunks == {k \in 1..Len(input) : ReportsFinishReason(k)}

UsageChunks == {k \in GoodChunks : ~IsNull(input[k].usage)}

LatestFinishReason ==
  IF ReasonChunks = {} THEN [unified |-> "other", raw |-> None]
  ELSE LET fr == input[Max(ReasonChunks)].choices[1].finish_reason IN
       [unified |-> mapQwenFinishReason(fr).unified, raw |-> fr]

LatestUsage ==
  LET reported == UsageChunks # {}
      u == IF reported THEN Get(input[Max(UsageChunks)].usage)
           ELSE [prompt_tokens |-> None, completion_tokens |-> None]
  IN  [inputTokens |-> [total |-> u.prompt_tokens, noCache |-> None,
                        cacheRead |-> None, cacheWrite |-> None],
       outputTokens |-> [total |-> u.completion_tokens, text |-> None,
                         reasoning |-> None]]

C11_FinishCarriesLatest ==
  /\ finishReason = LatestFinishReason
  /\ usage = LatestUsage
  /\ pc = "closed" =>
       Last(events) = [type |-> "finish", finishReason |-> LatestFinishReason,
                       usage |-> LatestUsage]

\* two reasons and two usages were reported, the last chunk reports neither
C11_Witness ==
  /\ pc = "closed"
  /\ Len(input) = 3
  /\ ReasonChunks = {1, 2}
  /\ UsageChunks = {2}
  /\ Last(events).finishReason = [unified |-> "other", raw |-> Some("eos")]
  /\ Last(events).usage.inputTokens.total = Some(7)
  /\ Last(events).usage.outputTokens.total = None

\* no chunk reported a finish reason or usage
C11_WitnessNoneReported ==
  /\ pc = "closed"
  /\ Len(input) = 2
  /\ GoodChunks = {1, 2}
  /\ ReasonChunks = {} /\ UsageChunks = {}
  /\ Last(events).finishReason.raw = None
  /\ Last(events).usage.inputTokens.total = None

(***************************************************************************)
(* C12.  In a chat stream the sequence of text-delta payloads equals, in   *)
(* order and one for one, the sequence of non-null content fragments of    *)
(* the successfully parsed chunks (the delta of the first choice); the     *)
(* same holds for reasoning-delta payloads and reasoning fragments.  Each  *)
(* delta event was enqueued while its fragment's chunk was processed.      *)
(***************************************************************************)
RECURSIVE Payloads(_, _)
Payloads(evs, t) ==
  IF evs = <<>> THEN <<>>
  ELSE (IF Head(evs).type = t THEN <<Head(evs).delta>> ELSE <<>>)
       \o Payloads(Tail(evs), t)

\* the fragment (an option) chunk c carries in the given field of its first delta
Fragment(c, field) ==
  IF c.success /\ c.object # Some("error") /\ Len(c.choices) > 0
     /\ ~IsNull(c.choices[1].delta)
    THEN Get(c.choices[1].delta)[field]
    ELSE None

RECURSIVE Fragments(_, _)
Fragments(chunks, field) ==
  IF chunks = <<>> THEN <<>>
  ELSE Fragment(Head(chunks), field) \o Fragments(Tail(chunks), field)

\* chunk numbers of the events of type t, in emission order
RECURSIVE Sources(_, _, _)
Sources(evs, org, t) ==
  IF evs = <<>> THEN <<>>
  ELSE (IF Head(evs).type = t THEN <<Head(org).chunk>> ELSE <<>>)
       \o Sources(Tail(evs), Tail(org), t)

\* chunk numbers of the chunks that carry a fragment in the field, ascending
RECURSIVE Carriers(_, _, _)
Carriers(chunks, k, field) ==
  IF chunks = <<>> THEN <<>>
  ELSE (IF ~IsNull(Fragment(Head(chunks), field)) THEN <<k>> ELSE <<>>)
       \o Carriers(Tail(chunks), k + 1, field)

C12_DeltasAreFragments ==
  /\ Payloads(events, "text-delta") = Fragments(input, "content")
  /\ Payloads(events, "reasoning-delta") = Fragments(input, "reasoning_content")
  /\ Sources(events, origin, "text-delta") = Carriers(input, 1, "content")
  /\ Sources(events, origin, "reasoning-delta") = Carriers(input, 1, "reasoning_content")

\* three text fragments, one of them empty, and two reasoning fragments
C12_Witness ==
  /\ pc = "closed"
  /\ Payloads(events, "text-delta") = << <<"a">>, <<>>, <<"b">> >>
  /\ Sources(events, origin, "text-delta") = <<1, 2, 3>>
  /\ CountType(events, "text-start") = 1

\* two reasoning fragments around a chunk that failed to parse
C12_WitnessReasoning ==
  /\ Payloads(events, "reasoning-delta") = << <<"r">>, <<"r">> >>
  /\ Sources(events, origin, "reasoning-delta") = <<1, 3>>
  /\ ~input[2].success

(***************************************************************************)
(* C13.  Original statement: in simulated-streaming mode, after one        *)
(* non-streaming call, the stream is stream-start, response-metadata, one  *)
(* start/delta/end triple for EACH content segment of the result, in the   *)
(* result's order, and finish as the last event.                           *)
(***************************************************************************)
\* number of events a content part of the result is forwarded as
Width(part) == IF part.type = "tool-call" THEN 1 ELSE 3

\* position of the first event of part i of the result
RECURSIVE PartOffset(_, _)
PartOffset(content, i) ==
  IF i = 1 THEN 3 ELSE PartOffset(content, i - 1) + Width(content[i - 1])

IsTriple(p, part) ==
  /\ p + 2 <= Len(events)
  /\ events[p].type = part.type \o "-start"
  /\ events[p + 1].type = part.type \o "-delta"
  /\ events[p + 2].type = part.type \o "-end"

SimulatedFrame ==
  /\ requests = 1
  /\ events[1].type = "stream-start"
  /\ events[2].type = "response-metadata"
  /\ Last(events).type = "finish"
  /\ CountType(events, "finish") = 1

C13_TriplePerSegment ==
  (api = "chat-simulated" /\ pc = "closed") =>
    LET content == Get(result).content IN
      /\ SimulatedFrame
      /\ Len(events) = 3 + 3 * Len(content)
      /\ \A i \in 1..Len(content) : IsTriple(3 * i, content[i])

(***************************************************************************)
(* C13, amended.  In simulated-streaming mode the chat adapter performs    *)
(* one non-streaming call and then emits stream-start, response-metadata,  *)
(* then for each content part of the result, in the result's order: a      *)
(* start/delta/end triple with one fresh id and the whole text as the      *)
(* delta for a reasoning or text part, and a single tool-call event (no    *)
(* tool-input-start, -delta or -end) for a tool-call part; finish, with    *)
(* the result's finish reason and usage, is the last event.  Nothing is    *)
(* emitted before the call has resolved or when it was rejected.           *)
(***************************************************************************)
C13_SimulatedSequence ==
  /\ (api = "chat-simulated" /\ pc # "closed") => events = <<>>
  /\ (api = "chat-simulated" /\ pc = "closed") =>
       LET res == Get(result)
           content == res.content
       IN
         /\ SimulatedFrame
         /\ Last(events).finishReason = res.finishReason
         /\ Last(events).usage = res.usage
         /\ Len(events) = PartOffset(content, Len(content) + 1)
         /\ \A i \in 1..Len(content) :
              LET p == PartOffset(content, i) IN
                IF content[i].type = "tool-call"
                  THEN events[p] = [type |-> "tool-call",
                                    toolCallId |-> content[i].toolCallId,
                                    toolName |-> content[i].toolName,
                                    input |-> content[i].input]
                  ELSE /\ IsTriple(p, content[i])
                       /\ events[p + 1].delta = content[i].text
                       /\ events[p].id = events[p + 1].id
                       /\ events[p].id = events[p + 2].id
                       /\ \A q \in 1..Len(events) :
                            (q \notin p..(p + 2) /\ "id" \in DOMAIN events[q])
                              => events[q].id # events[p].id

\* a result with a reasoning part, a text part and two tool calls
C13_Witness ==
  /\ api = "chat-simulated"
  /\ pc = "closed"
  /\ requests = 1
  /\ Len(Get(result).content) = 4
  /\ Get(result).content[1].type = "reasoning"
  /\ Get(result).content[2].type = "text"
  /\ Get(result).content[4].type = "tool-call"
  /\ Len(events) = 11
  /\ events[9].type = "tool-call"
  /\ events[10].type = "tool-call"

(***************************************************************************)
(* C14.  Two streaming calls running concurrently on one chat model        *)
(* instance, their chunks interleaved in any order, each emit exactly the  *)
(* event sequence they would emit when run alone on the chunks they were   *)
(* handed (ids being the first, second, ... id generated for the call);    *)
(* flags, ids, finish reason, usage and tool accumulators of a call depend *)
(* on that call's chunks only.                                             *)
(***************************************************************************)
\* the locals after transform() was applied to the chunks, one after the other
RECURSIVE RunAlone(_, _, _)
RunAlone(st, chunks, k) ==
  IF chunks = <<>> THEN st
  ELSE RunAlone(ChatTransform([st EXCEPT !.n = k], Head(chunks)), Tail(chunks), k + 1)

\* what a call handed these chunks is when nothing else runs
Alone(chunks, ended) ==
  LET st == RunAlone(InitialState("chat"), chunks, 1) IN
    IF ended THEN ChatFlush([st EXCEPT !.n = 0]) ELSE st

Converted == ~IsNull(messages) /\ Get(messages).ok

Output == Get(messages).value

Parts(turn) == turn.content.array

\* number of messages a turn yields
Yield(turn) == IF turn.role = "tool" THEN Len(Parts(turn)) ELSE 1

\* number of messages the turns before turn t yield
RECURSIVE Before(_)
Before(t) == IF t = 1 THEN 0 ELSE Before(t - 1) + Yield(prompt[t - 1])

\* the j-th message of turn t
MessageOf(t, j) == Output[Before(t) + j]

TurnsOf(role) == {t \in 1..Len(prompt) : prompt[t].role = role}

HasOptions(x) == ~IsNull(x.providerOptions)

IsSingleText(content) == Len(content) = 1 /\ content[1].type = "text"

IsPlainString(content) == DOMAIN content = {"string"}

(***************************************************************************)
(* C15.  Original statement: a user turn's content is emitted as a plain   *)
(* string if and only if the turn consists of exactly one text part that   *)
(* carries NO part-level metadata; every other shape yields an array.      *)
(***************************************************************************)
C15_StringIffBareSingleText ==
  Converted =>
    \A t \in TurnsOf("user") :
      IsPlainString(MessageOf(t, 1).content)
        <=> (IsSingleText(Parts(prompt[t])) /\ ~HasOptions(Parts(prompt[t])[1]))

(***************************************************************************)
(* C15, amended.  The Message Converter emits a user turn's content as a   *)
(* plain string, the text of the part, if and only if the turn consists of *)
(* exactly one part and that part is a text part, whether or not the part  *)
(* carries part-level metadata (its metadata is then spread onto the       *)
(* message).  Every other shape (no part, two or more parts, an image      *)
(* part) yields an array with one typed sub-part per part, in part order.  *)
(***************************************************************************)
C15_StringIffSingleText ==
  Converted =>
    \A t \in TurnsOf("user") :
      LET content == Parts(prompt[t])
          message == MessageOf(t, 1)
      IN  IF IsSingleText(content)
            THEN /\ message.content = Str(content[1].text)
                 /\ HasOptions(content[1]) =>
                      \A key \in DOMAIN PartOptions : message[key] = PartOptions[key]
            ELSE /\ DOMAIN message.content = {"array"}
                 /\ Len(message.content.array) = Len(content)
                 /\ \A i \in 1..Len(content) :
                      message.content.array[i].type =
                        (IF content[i].type = "text" THEN "text" ELSE "image_url")

\* a single text part that carries part-level metadata was collapsed
C15_Witness ==
  /\ Converted
  /\ \E t \in TurnsOf("user") :
       /\ IsSingleText(Parts(prompt[t]))
       /\ HasOptions(Parts(prompt[t])[1])
       /\ MessageOf(t, 1).content = Str("Hi")
       /\ MessageOf(t, 1).partOnly = "part-level"
  /\ \E t \in TurnsOf("user") :
       /\ Len(Parts(prompt[t])) = 2
       /\ DOMAIN MessageOf(t, 1).content = {"array"}

(***************************************************************************)
(* C16.  Original statement: a vendor-option key present only at the turn  *)
(* level appears on EVERY vendor message produced from that turn, for      *)
(* every role: system, user (collapsed-string and array form), assistant,  *)
(* and each message of a tool turn.                                        *)
(***************************************************************************)
CarriesTurnOnly(message) ==
  "turnOnly" \in DOMAIN message /\ message.turnOnly = TurnOptions.turnOnly

C16_TurnKeyOnEveryMessage ==
  Converted =>
    \A t \in 1..Len(prompt) :
      HasOptions(prompt[t]) =>
        \A j \in 1..Yield(prompt[t]) : CarriesTurnOnly(MessageOf(t, j))

(***************************************************************************)
(* C16, amended.  A vendor-option key present only at the turn level       *)
(* appears on the message of a system turn, of an assistant turn and of a  *)
(* user turn sent in array form.  It appears neither on the message of a   *)
(* user turn collapsed to a plain string nor on any message of a tool      *)
(* turn: those carry the options of their part only.                       *)
(***************************************************************************)
C16_TurnKeyHoisted ==
  Converted =>
    \A t \in 1..Len(prompt) :
      HasOptions(prompt[t]) =>
        \A j \in 1..Yield(prompt[t]) :
          CarriesTurnOnly(MessageOf(t, j))
            <=> \/ prompt[t].role \in {"system", "assistant"}
                \/ prompt[t].role = "user" /\ ~IsSingleText(Parts(prompt[t]))

\* an array-form user turn whose message has the key, a tool turn whose message has not
C16_Witness ==
  /\ Converted
  /\ Len(prompt) = 2
  /\ prompt[1].role = "user" /\ HasOptions(prompt[1]) /\ Len(Parts(prompt[1])) = 2
  /\ CarriesTurnOnly(Output[1])
  /\ prompt[2].role = "tool" /\ HasOptions(prompt[2]) /\ Len(Parts(prompt[2])) = 1
  /\ "turnOnly" \notin DOMAIN Output[2]

(***************************************************************************)
(* C17.  Whenever the same vendor-option key is set at turn level and at   *)
(* part level with different values, the object the Message Converter      *)
(* builds from that part (the collapsed user message, the sub-part of an   *)
(* array-form user message, the tool_calls entry of a tool-call part, the  *)
(* tool message of a tool-result part) carries the part-level value.       *)
(***************************************************************************)
PartLevel(object) == "shared" \in DOMAIN object /\ object.shared = PartOptions.shared

\* the tool-call parts of an assistant content, in order
ToolCallsOf(content) == SelectSeq(content, LAMBDA part : part.type = "tool-call")

NonToolTurns == {t \in 1..Len(prompt) : prompt[t].role # "tool"}

\* number of tool-result parts in the first n turns
RECURSIVE ToolResults(_)
ToolResults(n) ==
  IF n = 0 THEN 0
  ELSE ToolResults(n - 1)
       + (IF prompt[n].role = "tool" THEN Len(Parts(prompt[n])) ELSE 0)

C18_OrderPreserving ==
  Converted =>
    /\ Len(Output) = Cardinality(NonToolTurns) + ToolResults(Len(prompt))
    /\ \A t \in 1..Len(prompt) :
         \A j \in 1..Yield(prompt[t]) :
           /\ MessageOf(t, j).role = prompt[t].role
           /\ prompt[t].role = "tool" =>
                MessageOf(t, j).tool_call_id = Parts(prompt[t])[j].toolCallId
           /\ prompt[t].role = "system" =>
                MessageOf(t, j).content = prompt[t].content

\* a tool turn with two results followed by a user turn: three messages
C18_Witness ==
  /\ Converted
  /\ Len(prompt) = 2
  /\ prompt[1].role = "tool" /\ Len(Parts(prompt[1])) = 2
  /\ prompt[2].role = "user"
  /\ Len(Output) = 3
  /\ Output[1].role = "tool" /\ Output[1].tool_call_id = "call_a"
  /\ Output[2].role = "tool" /\ Output[2].tool_call_id = "call_b"
  /\ Output[3].role = "user"

(***************************************************************************)
(* C19.  The Message Converter fails with an unsupported-functionality     *)
(* error, returning no messages at all, whenever a user turn contains a    *)
(* non-image file part or an assistant turn contains a file, reasoning or  *)
(* tool-result part, wherever the offending part sits in the conversation; *)
(* in the chat adapter the call is then rejected before any HTTP request   *)
(* is issued.  A prompt without such a part is converted and posted once.  *)
(***************************************************************************)
IsImage(part) ==
  Len(part.mediaType) >= 6 /\ SubSeq(part.mediaType, 1, 6) = "image/"

Unsupported(role, part) ==
  \/ role = "user" /\ part.type = "file" /\ ~IsImage(part)
  \/ role = "assistant" /\ part.type \in {"file", "reasoning", "tool-result"}

\* <<t, i>>: part i of turn t is unsupported in its role
UnsupportedParts ==
  UNION {{<<t, i>> : i \in {i \in 1..Len(Parts(prompt[t])) :
                              Unsupported(prompt[t].role, Parts(prompt[t])[i])}} :
           t \in (1..Len(prompt)) \ TurnsOf("system")}

C19_UnsupportedPartRejects ==
  pc # "calling" =>
    IF UnsupportedParts # {}
      THEN /\ pc = "rejected"
           /\ requests = 0
           /\ ~Get(messages).ok
           /\ Get(messages).error = "UnsupportedFunctionalityError"
           /\ "value" \notin DOMAIN Get(messages)
      ELSE /\ pc = "requested"
           /\ requests = 1
           /\ Converted

\* the offending part is the last part of the last turn, after a turn that converts
C19_Witness ==
  /\ pc = "rejected"
  /\ requests = 0
  /\ Len(prompt) = 2
  /\ prompt[1].role = "user" /\ Len(Parts(prompt[1])) = 2
  /\ UnsupportedParts = {<<2, 2>>}
  /\ prompt[2].role = "assistant"
  /\ Parts(prompt[2])[2].type = "tool-result"
  /\ ~Get(messages).ok

(***************************************************************************)
(* C20.  Original statement: finish-reason mapping is total; stop, length, *)
(* tool_calls and content_filter map to stop, length, tool-calls and       *)
(* content-filter, every other input maps to the designated fallback, and  *)
(* raw equals the input string, or undefined when the input is null or     *)
(* undefined.  Stated of both mappers of the repository.                   *)
(***************************************************************************)
ReasonTable ==
  [stop |-> "stop", length |-> "length", tool_calls |-> "tool-calls",
   content_filter |-> "content-filter"]

Fallback == IF api = "chat" THEN "other" ELSE "unknown"

\* the unified value and the raw value of a mapper's result; the completion
\* model's mapper returns the unified value alone
UnifiedOf(m) == IF api = "chat" THEN m.unified ELSE m

RawOf(m) == IF api = "chat" THEN m.raw ELSE None

Recognized(fr, table) == ~IsNull(fr) /\ Get(fr) \in DOMAIN table

ReasonTableV2 == [stop |-> "stop", length |-> "length", tool_calls |-> "tool-calls"]

C20_WitnessV2 ==
  /\ pc = "mapped"
  /\ api = "completion"
  /\ vendorReason = Some("content_filter")
  /\ mapped = Some("unknown")

(***************************************************************************)
(* Vocabulary of the request properties: the state after the call acted.   *)
(***************************************************************************)
Called(kind) == api = kind /\ pc # "calling"

Rejected(error) == pc = "rejected" /\ failure.error = error

(***************************************************************************)
(* C21.  embed rejects with the too-many-values error, which carries the   *)
(* supplied values and the limit, and issues no HTTP request, exactly when *)
(* the number of values exceeds the configured maximum (2048 when none is  *)
(* configured); a call with at most that many values issues exactly one    *)
(* POST, to /embeddings with the values as input.                          *)
(***************************************************************************)
C21_TooManyValuesRejected ==
  Called("embedding") =>
    LET limit == IF IsNull(config.maxEmbeddingsPerCall) THEN DefaultMaxEmbeddingsPerCall
                 ELSE Get(config.maxEmbeddingsPerCall)
        tooMany == Len(options.values) > limit
    IN  /\ tooMany <=> Rejected("TooManyEmbeddingValuesForCallError")
        /\ tooMany => /\ failure.values = options.values
                      /\ failure.maxEmbeddingsPerCall = limit
                      /\ requests = 0
                      /\ posted = <<>>
        /\ ~tooMany => /\ requests = 1
                       /\ Len(posted) = 1
                       /\ posted[1].url.path = "/embeddings"
                       /\ posted[1].body.input = options.values

\* one value more than the default maximum, no maximum configured
C21_Witness ==
  /\ Called("embedding")
  /\ IsNull(config.maxEmbeddingsPerCall)
  /\ Len(options.values) = DefaultMaxEmbeddingsPerCall + 1
  /\ Rejected("TooManyEmbeddingValuesForCallError")

\* exactly the configured maximum: the request goes out
C21_WitnessAtLimit ==
  /\ Called("embedding")
  /\ config.maxEmbeddingsPerCall = Some(Len(options.values))
  /\ Len(options.values) > 0
  /\ requests = 1
  /\ pc = "embedded"

(***************************************************************************)
(* C22.  rerank sends exactly one POST, and the model id alone decides its *)
(* endpoint and body shape, whatever the settings and the options: an id   *)
(* that starts with qwen3-rerank (qwen3-reranker-0.6b is one) posts the    *)
(* flat body (model, documents, query, top_n at top level) to              *)
(* /compatible-api/v1/reranks; every other id posts the nested body        *)
(* (input with query and documents, parameters with top_n) to              *)
(* /api/v1/services/rerank/text-rerank/text-rerank.                        *)
(***************************************************************************)
FlatIds == {"qwen3-rerank", "qwen3-reranker-0.6b"}

SentTexts ==
  IF options.documents.type = "text" THEN options.documents.values
  ELSE <<"{\"q\":\"x\",\"n\":1}">>

C22_WitnessNested ==
  /\ Called("rerank")
  /\ config.modelId = "my-qwen3-rerank"
  /\ ~IsNull(config.settings.instruct)
  /\ "input" \in DOMAIN posted[1].body

(***************************************************************************)
(* C23.  For both wire formats the ranking rerank returns has the length   *)
(* and the order of the vendor's result list, entry i carrying the index   *)
(* and the relevance score of vendor result i: the results are neither     *)
(* re-sorted nor trimmed (not even to topN) nor de-duplicated.             *)
(***************************************************************************)
VendorList ==
  IF "results" \in DOMAIN input[1] THEN input[1].results ELSE input[1].output.results

C23_RankingMirrorsVendor ==
  Called("rerank") /\ pc = "reranked" =>
    LET ranking == Get(result).ranking IN
      /\ Len(ranking) = Len(VendorList)
      /\ \A i \in 1..Len(VendorList) :
           /\ ranking[i].index = VendorList[i].index
           /\ ranking[i].relevanceScore = VendorList[i].relevance_score
      /\ ("results" \in DOMAIN input[1]) <=> (config.modelId \in FlatIds)

\* nested format: worse score first, more results than topN
C23_Witness ==
  /\ Called("rerank")
  /\ pc = "reranked"
  /\ config.modelId = "gte-rerank-v2"
  /\ options.topN = Some(1)
  /\ Len(VendorList) = 2
  /\ VendorList[1].relevance_score < VendorList[2].relevance_score
  /\ Len(Get(result).ranking) = 2

\* flat format: the same entry twice
C23_WitnessFlat ==
  /\ Called("rerank")
  /\ pc = "reranked"
  /\ config.modelId = "qwen3-rerank"
  /\ Len(VendorList) = 2
  /\ VendorList[1] = VendorList[2]
  /\ Len(Get(result).ranking) = 2

(***************************************************************************)
(* C24.  A completion call, generate or stream, that supplies at least one *)
(* tool definition or a tool choice (of any type, none included) is        *)
(* rejected with the unsupported-functionality error, naming tools or      *)
(* toolChoice, and has issued no HTTP request.                             *)
(***************************************************************************)
C24_ToolsRejected ==
  \A method \in {"completion-generate", "completion-stream"} :
    Called(method) =>
      LET tools == options.tools
          toolChoice == options.toolChoice
          supplied == (tools # None /\ Get(tools) # <<>>) \/ toolChoice # None
      IN  supplied =>
            /\ Rejected("UnsupportedFunctionalityError")
            /\ failure.functionality = IF tools # None /\ Get(tools) # <<>> THEN "tools"
                                       ELSE "toolChoice"
            /\ requests = 0
            /\ posted = <<>>

\* a stream call with a tool choice of type none and no tool
C24_Witness ==
  /\ Called("completion-stream")
  /\ options.tools = None
  /\ options.toolChoice = Some([type |-> "none"])
  /\ Rejected("UnsupportedFunctionalityError")
  /\ requests = 0

\* a generate call with two tools
C24_WitnessGenerate ==
  /\ Called("completion-generate")
  /\ options.tools # None
  /\ Len(Get(options.tools)) = 2
  /\ Rejected("UnsupportedFunctionalityError")

\* a call without tools goes out, streaming when asked to
C24_WitnessRequested ==
  /\ Called("completion-stream")
  /\ pc = "requested"
  /\ options.tools = Some(<<>>)
  /\ posted[1].body.stream

(***************************************************************************)
(* Vocabulary of the chat-argument properties.                             *)
(***************************************************************************)
Requested == Called("chat-call") /\ pc = "requested"

IsJson == options.responseFormat # None /\ Get(options.responseFormat).type = "json"

HasSchema == IsJson /\ Get(options.responseFormat).schema # None

Structured == config.supportsStructuredOutputs = Some(TRUE)

WarningsAbout(feature) == {w \in 1..Len(warnings) : warnings[w].feature = feature}

SuppliedTools == IF options.tools = None THEN <<>> ELSE Get(options.tools)

IsFunctionTool(tool) == tool.type = "function"

IsOtherTool(tool) == tool.type # "function"

(***************************************************************************)
(* C25.  For a json response format the chat adapter sends the json_schema *)
(* parameter (the schema, the name or "response", the description) if and  *)
(* only if the model supports structured outputs and a schema is present;  *)
(* every other json request sends {type: json_object}; the response-format *)
(* warning is attached, once, exactly when a schema was supplied and       *)
(* dropped; a request that is not json sends no response format.           *)
(***************************************************************************)
C25_ResponseFormat ==
  Requested =>
    LET sent == posted[1].body.response_format IN
      /\ IsJson /\ Structured /\ HasSchema =>
           sent = Some([type |-> "json_schema",
                        json_schema |->
                          [schema |-> Get(Get(options.responseFormat).schema),
                           name |-> IF Get(options.responseFormat).name = None THEN "response"
                                    ELSE Get(Get(options.responseFormat).name),
                           description |-> Get(options.responseFormat).description]])
      /\ IsJson /\ ~(Structured /\ HasSchema) => sent = Some([type |-> "json_object"])
      /\ ~IsJson => sent = None
      /\ Cardinality(WarningsAbout("responseFormat")) = IF HasSchema /\ ~Structured THEN 1 ELSE 0

\* a schema dropped by a model constructed without the setting
C25_Witness ==
  /\ Requested
  /\ config.supportsStructuredOutputs = None
  /\ HasSchema
  /\ posted[1].body.response_format = Some([type |-> "json_object"])
  /\ WarningsAbout("responseFormat") # {}

\* a schema sent
C25_WitnessSchema ==
  /\ Requested
  /\ Structured
  /\ HasSchema
  /\ Get(posted[1].body.response_format).type = "json_schema"
  /\ warnings = <<>>

(***************************************************************************)
(* C26.  Unsupported chat request features do not abort the call: a call   *)
(* whose prompt converts is requested whatever top-k and tools it carries. *)
(* top-k adds exactly one warning; each tool that is not a function tool   *)
(* adds exactly one warning, naming its type, and is left out of the       *)
(* vendor tools; the function tools are forwarded one for one in their     *)
(* order; the tools field is omitted when no tool remains.  No other       *)
(* warning is attached but the one of the response format.                 *)
(***************************************************************************)
C26_UnsupportedFeaturesWarn ==
  Called("chat-call") /\ Get(messages).ok =>
    LET kept == SelectSeq(SuppliedTools, IsFunctionTool)
        dropped == SelectSeq(SuppliedTools, IsOtherTool)
        about(w) == warnings[w].feature
        toolWarnings == {w \in 1..Len(warnings) : about(w) \notin {"topK", "responseFormat"}}
    IN  /\ pc = "requested"
        /\ requests = 1
        /\ Cardinality(WarningsAbout("topK")) = IF options.topK = None THEN 0 ELSE 1
        /\ Cardinality(toolWarnings) = Len(dropped)
        /\ \A w \in toolWarnings : about(w) = "tool type: provider"
        /\ \A w \in 1..Len(warnings) : warnings[w].type = "unsupported"
        /\ posted[1].body.tools =
             IF kept = <<>> THEN None
             ELSE Some([i \in 1..Len(kept) |->
                          [type |-> "function",
                           function |-> [name |-> kept[i].name,
                                         description |-> kept[i].description,
                                         parameters |-> kept[i].inputSchema]]])

\* top-k, and a provider tool before a function tool: two warnings, one tool sent
C26_Witness ==
  /\ Requested
  /\ options.topK # None
  /\ Len(SuppliedTools) = 2
  /\ SuppliedTools[1].type = "provider"
  /\ SuppliedTools[2].type = "function"
  /\ Len(Get(posted[1].body.tools)) = 1
  /\ Cardinality(WarningsAbout("tool type: provider")) = 1
  /\ Cardinality(WarningsAbout("topK")) = 1

\* only unsupported tools: the tools field is omitted
C26_WitnessOmitted ==
  /\ Requested
  /\ Len(SuppliedTools) = 2
  /\ SuppliedTools[1].type = "provider"
  /\ SuppliedTools[2].type = "provider"
  /\ posted[1].body.tools = None
  /\ Cardinality(WarningsAbout("tool type: provider")) = 2

\* two function tools, second name first
C26_WitnessOrder ==
  /\ Requested
  /\ Len(SuppliedTools) = 2
  /\ SuppliedTools[1].name = "beta"
  /\ SuppliedTools[2].name = "alpha"
  /\ Get(posted[1].body.tools)[1].function.name = "beta"
  /\ Get(posted[1].body.tools)[2].function.name = "alpha"

(***************************************************************************)
(* C27.  The completion transcoder tracks one text sub-stream.             *)
(* stream-start and response-metadata are emitted once each, while the     *)
(* first successfully parsed chunk that is not a vendor error object is    *)
(* processed (never without such a chunk); there is at most one            *)
(* text-start, emitted just before the first text-delta; there is one      *)
(* text-delta, with the text as payload, for every such chunk that has a   *)
(* first choice, in chunk order; no reasoning or tool event exists.  At    *)
(* flush text-end is emitted exactly when text-start was, and then finish, *)
(* the only finish, as the last event; before flush neither exists.        *)
(***************************************************************************)
TextChunks == {k \in GoodChunks : Len(input[k].choices) > 0}

C27_SingleTextSubStream ==
  api = "completion" =>
    LET at(t) == Positions(events, t)
        source == Sources(events, origin, "text-delta")
        payload == Payloads(events, "text-delta")
    IN  /\ \A t \in {"stream-start", "response-metadata"} :
             /\ Cardinality(at(t)) = IF GoodChunks = {} THEN 0 ELSE 1
             /\ \A p \in at(t) : origin[p].chunk = Min(GoodChunks)
        /\ Cardinality(at("text-start")) = IF TextChunks = {} THEN 0 ELSE 1
        /\ \A p \in at("text-start") :
             /\ origin[p].chunk = Min(TextChunks)
             /\ events[p + 1].type = "text-delta"
             /\ \A q \in at("text-delta") \cup at("text-end") :
                  p < q /\ events[q].id = events[p].id
        /\ Len(source) = Cardinality(TextChunks)
        /\ \A i \in 1..Len(source) :
             /\ source[i] \in TextChunks
             /\ i > 1 => source[i - 1] < source[i]
             /\ payload[i] = Get(input[source[i]].choices[1].text)
        /\ \A p \in 1..Len(events) :
             events[p].type \in {"error", "stream-start", "response-metadata", "text-start",
                                 "text-delta", "text-end", "finish"}
        /\ IF pc = "closed"
             THEN /\ Cardinality(at("text-end")) = Cardinality(at("text-start"))
                  /\ Cardinality(at("finish")) = 1
                  /\ Last(events).type = "finish"
                  /\ \A p \in at("text-end") :
                       p = Len(events) - 1 /\ origin[p].chunk = 0
             ELSE at("text-end") = {} /\ at("finish") = {}

\* an unparsable chunk, then two chunks with text, then the end of the input
C27_Witness ==
  /\ api = "completion"
  /\ pc = "closed"
  /\ Len(input) = 3
  /\ ~input[1].success
  /\ TextChunks = {2, 3}
  /\ CountType(events, "text-delta") = 2
  /\ CountType(events, "text-start") = 1
  /\ CountType(events, "text-end") = 1

\* a stream without text: neither text-start nor text-end, one finish
C27_WitnessNoText ==
  /\ api = "completion"
  /\ pc = "closed"
  /\ GoodChunks # {}
  /\ TextChunks = {}
  /\ CountType(events, "text-end") = 0
  /\ CountType(events, "finish") = 1

(***************************************************************************)
(* C28.  In a chat stream whose tool-call indices have pairwise distinct   *)
(* ids, the input of each tool-call event is the concatenation, in         *)
(* emission order, of the payloads of all tool-input-delta events emitted  *)
(* for its id, at the moment it is emitted and ever after; no              *)
(* tool-input-delta for an id comes after the tool-input-end of that id.   *)
(***************************************************************************)
RECURSIVE InputDeltas(_, _)
InputDeltas(evs, id) ==
  IF evs = <<>> THEN <<>>
  ELSE (IF Head(evs).type = "tool-input-delta" /\ Head(evs).id = id
          THEN Head(evs).delta ELSE <<>>)
       \o InputDeltas(Tail(evs), id)

DistinctIds ==
  \A i, j \in DOMAIN toolCalls : i # j => toolCalls[i].id # toolCalls[j].id

C28_InputIsSumOfDeltas ==
  api = "chat" /\ DistinctIds =>
    /\ \A p \in Positions(events, "tool-call") :
         events[p].input = InputDeltas(events, events[p].toolCallId)
    /\ \A p \in Positions(events, "tool-input-end") :
         \A q \in Positions(events, "tool-input-delta") :
           events[q].id = events[p].id => q < p

\* two indices with their own ids; one call assembled from two deltas of different
\* chunks, and a fragment for it that arrived after it was finished
C28_Witness ==
  /\ api = "chat"
  /\ DistinctIds
  /\ Cardinality(DOMAIN toolCalls) = 2
  /\ \E p \in Positions(events, "tool-call") :
       /\ Len(events[p].input) >= 2
       /\ \E q, r \in Positions(events, "tool-input-delta") :
            /\ events[q].id = events[p].toolCallId
            /\ events[r].id = events[p].toolCallId
            /\ origin[q].chunk < origin[r].chunk
       /\ \E k \in (origin[p].chunk + 1)..Len(input) : \E j \in 1..Len(DeltasOf(k)) :
            DeltasOf(k)[j].index = origin[p].index

(***************************************************************************)
(* C29.  For every vendor message the Message Converter emits, role is the *)
(* role of the source turn, and content, tool_call_id and tool_calls are   *)
(* the values derived from the turn's parts, whatever keys the turn-level  *)
(* and part-level vendor-option bags contain: an option named role,        *)
(* content, tool_call_id or tool_calls does not replace the structural     *)
(* field.                                                                  *)
(***************************************************************************)
RECURSIVE TextOf(_)
TextOf(content) ==
  IF content = <<>> THEN ""
  ELSE (IF Head(content).type = "text" THEN Head(content).text ELSE "")
       \o TextOf(Tail(content))

CallIdsOf(content) ==
  LET callParts == SelectSeq(content, LAMBDA part : part.type = "tool-call")
  IN  [i \in 1..Len(callParts) |-> callParts[i].toolCallId]

C29_StructuralFieldsKept ==
  Converted =>
    \A t \in 1..Len(prompt) : \A j \in 1..Yield(prompt[t]) :
      LET turn == prompt[t]
          message == MessageOf(t, j)
      IN  /\ message.role = turn.role
          /\ turn.role = "system" => message.content = turn.content
          /\ turn.role = "user" =>
               IF IsSingleText(Parts(turn))
                 THEN message.content = Str(Parts(turn)[1].text)
                 ELSE /\ DOMAIN message.content = {"array"}
                      /\ Len(message.content.array) = Len(Parts(turn))
          /\ turn.role = "assistant" =>
               /\ message.content = Str(TextOf(Parts(turn)))
               /\ IF CallIdsOf(Parts(turn)) = <<>> THEN message.tool_calls = None
                  ELSE /\ message.tool_calls # None
                       /\ Len(Get(message.tool_calls)) = Len(CallIdsOf(Parts(turn)))
          /\ turn.role = "tool" =>
               /\ message.tool_call_id = Parts(turn)[j].toolCallId
               /\ LET output == Parts(turn)[j].output IN
                    message.content = Str(IF output.type \in {"text", "error-text"}
                                            THEN output.value.value
                                            ELSE JSONstringify(output.value))

(***************************************************************************)
(* C30.  In a chat stream every text-delta and text-end event comes after  *)
(* the text-start event that carries its id, every reasoning-delta and     *)
(* reasoning-end after the reasoning-start that carries its id, and        *)
(* stream-start and then response-metadata have both been emitted before   *)
(* any text, reasoning or tool event.                                      *)
(***************************************************************************)
ContentTypes ==
  {"text-start", "text-delta", "text-end", "reasoning-start", "reasoning-delta",
   "reasoning-end", "tool-input-start", "tool-input-delta", "tool-input-end", "tool-call"}

StartedBefore(p, start) ==
  \E q \in 1..(p - 1) : events[q].type = start /\ events[q].id = events[p].id

C30_StartsComeFirst ==
  api = "chat" =>
    \A p \in 1..Len(events) :
      /\ events[p].type \in {"text-delta", "text-end"} => StartedBefore(p, "text-start")
      /\ events[p].type \in {"reasoning-delta", "reasoning-end"} =>
           StartedBefore(p, "reasoning-start")
      /\ events[p].type \in ContentTypes =>
           \E s, m \in 1..(p - 1) :
             /\ s < m
             /\ events[s].type = "stream-start"
             /\ events[m].type = "response-metadata"

\* a closed stream that carried reasoning, text and a tool call
C30_Witness ==
  /\ api = "chat"
  /\ pc = "closed"
  /\ CountType(events, "reasoning-delta") > 0
  /\ CountType(events, "text-delta") > 0
  /\ CountType(events, "tool-input-start") > 0
  /\ CountType(events, "text-end") = 1
  /\ CountType(events, "reasoning-end") = 1

====
